---- MODULE Spec2Model ----
(***************************************************************************)
(* Secure multi-party Lagrange interpolation (Magic-six/experiment).       *)
(*                                                                         *)
(* The module models                                                       *)
(*   - the prime-field arithmetic of PrimeOrderCyclicGroup,                *)
(*   - the sharing primitives mini_one_share / mini_zero_share,            *)
(*   - the committee planner generate_triples,                             *)
(*   - the port pool PortManager,                                          *)
(*   - three_party_compute and four_party_compute, one coroutine segment   *)
(*     (the code between two awaits) per action,                           *)
(*   - the orchestrator secure_lagrange_interpolation.                     *)
(*                                                                         *)
(* Specifications:                                                         *)
(*   SpecThree  one run of three_party_compute                             *)
(*   SpecFour   one run of four_party_compute                              *)
(*   SpecSub    one run of either sub-protocol                             *)
(*   Spec       one run of secure_lagrange_interpolation                   *)
(*   SpecAll    one run of the orchestrator or of either sub-protocol      *)
(***************************************************************************)
EXTENDS Integers, Sequences, FiniteSets, TLC

VARIABLES
    p,                \* group.p: the prime modulus handed to the run
    seed,             \* the seed of Python's random module (fixed per run)
    draws,            \* how many values the random module has produced
    available_ports,  \* PortManager.available_ports
    proto,            \* which coroutine runs: "three", "four" or "orch"
    pc,               \* position of the sub-protocol coroutine
    x,                \* the participants' private x values, P_<m>.x
    x_star,           \* the public interpolation point
    ports,            \* port_i, port_j, ... : the locals holding acquired ports
    running,          \* participants whose listener is up (comm.is_running)
    loc,              \* the coroutine's local values that outlive a segment
    outbox,           \* messages written by send_value and not yet read
    inbox,            \* comm.received_data of every participant
    vals,             \* what the last recv_values of every participant returned
    result,           \* the sub-protocol's return value (None or final_res)
    lost,             \* messages that never landed (send failed or late)
    short,            \* some recv_values returned fewer values than asked
    sentAfterShort,   \* a send_value was issued after a short recv_values
    send_fails,       \* send_data attempts that raised so far in the run
    tele,             \* the counters of the endpoints of the run, summed
    exhausted,        \* some get_port found no free port
    startFailed,      \* some start() raised
    initial_ports,    \* available_ports when the run began (history)
    opc,              \* position of secure_lagrange_interpolation
    points,           \* the argument points: a list of <<x, y>>
    triples,          \* the committees returned by generate_triples
    computation_tasks, \* the committee of every coroutine handed to gather
    launched,         \* how many of the gathered tasks have run their setup
    task_ports,       \* the ports every gathered task holds
    task_results,     \* asyncio.gather's result list, filled as tasks return
    y_star,           \* the orchestrator's return value
    outcome,          \* how the orchestrator ended: "value" or "ValueError"
    call,             \* a library function called on its own, with its arguments
    ret,              \* what that call returned
    received_data,    \* comm.received_data of the endpoint called on its own
    data_available,   \* its asyncio.Event: set or clear
    is_running,       \* comm.is_running
    server,           \* comm.server: "none", "listening" or "closed"
    connections,      \* comm.connections: the peers with a cached writer
    connection_locks, \* comm.connection_locks: the peers with a lock
    handlers,         \* handle_client coroutines blocked in readline
    epc,              \* position of the coroutine that calls the endpoint
    expired,          \* the clock has passed the deadline of the recv_values
    recv_res,         \* the list the last recv_values built and returned
    attempt,          \* send_data's local attempt
    wire,             \* the lines the peer has read from the endpoint
    tries,            \* attempts the running send_data has made (history)
    closes,           \* close() calls that have returned (history)
    calls,            \* calls made on the endpoint so far (history)
    held,             \* the ports every coroutine that uses the pool holds
    sched_at,         \* the statement the sub-protocol coroutine is at
    ready,            \* the event loop's queue of tasks ready to run
    task_state,       \* how far every recv_values and send_value has got
    written,          \* per round, the send_value calls that have returned
    landed,           \* per receiver and round, the messages put in its inbox
    closer,           \* a coroutine that calls close() meanwhile: where it is
                      \* at, and where the recv_values was when it called
    senders,          \* the coroutines that call send_data at the same time
    opened,           \* connections open_connection has returned so far
    closing,          \* the writers whose is_closing() is true
    broken,           \* the writers on which a write or drain raised (history)
    lock_made,        \* asyncio.Lock objects get_connection has created
    locked,           \* the locks that are held
    send_rounds,      \* self.send_rounds
    recv_rounds,      \* self.recv_rounds
    streams,          \* the accepted inbound streams and their handle_client
    reordered,        \* some recv_values got its messages in another order
                      \* than the peers are listed in (history)
    boxes,            \* per participant, its inbox: the round every line in
                      \* it was sent in, oldest first
    consumed,         \* per recv_values, the rounds of the lines it returned
    routed,           \* <<k, m>>: a line written by committee k went to the
                      \* port an endpoint of committee m listened on (history)
    bw                \* a send_data on an endpoint with a bandwidth cap: its
                      \* locals and the passes of its write loop

envVars == <<p, seed, draws, available_ports, proto, initial_ports>>
orchVars == <<opc, points, triples, computation_tasks, launched, task_ports,
              task_results, y_star, outcome>>
subVars == <<pc, x, x_star, ports, running, loc, outbox, inbox, vals, result,
             lost, short, sentAfterShort, send_fails, tele, exhausted, startFailed>>
utilVars == <<call, ret>>
epVars == <<received_data, data_available, is_running, server, connections,
            connection_locks, handlers, epc, expired, recv_res, attempt, wire,
            tries, closes, calls>>
poolVars == <<held>>
schedVars == <<sched_at, ready, task_state, written, landed>>
shutVars == <<closer>>
connVars == <<senders, opened, closing, broken, lock_made, locked>>
statVars == <<send_rounds, recv_rounds>>
streamVars == <<streams>>
traceVars == <<reordered, routed>>
inboxVars == <<boxes, consumed>>
bwVars == <<bw>>
laterVars == <<streamVars, traceVars, inboxVars, bwVars>>
epRest == <<poolVars, schedVars, shutVars, connVars, laterVars>>
auxVars == <<epRest, statVars>>
poolRest == <<schedVars, shutVars, connVars, statVars, laterVars>>
schedRest == <<poolVars, shutVars, connVars, statVars, streamVars, traceVars,
               bwVars>>
shutRest == <<poolVars, schedVars, connVars, statVars, laterVars>>
connRest == <<poolVars, schedVars, shutVars, statVars, laterVars>>
earlierVars == <<poolVars, schedVars, shutVars, connVars, statVars, bwVars>>
unitVars == <<utilVars, epVars, auxVars>>
vars == <<envVars, subVars, orchVars, unitVars>>

(***************************************************************************)
(* Bounds of the model.                                                    *)
(***************************************************************************)
MaxSeed == 1        \* seeds 0..MaxSeed of the random module
MaxX == 2           \* private x values and x* range over 0..Min(MaxX, p-1)
MaxLost == 1        \* messages that may fail to arrive in one run
MaxStartFail == 1   \* endpoints whose start() may fail in one run
MaxFree == 2        \* nearly exhausted pools: 0..MaxFree ports left free
MaxCase == 1        \* input families 0..MaxCase of the orchestrator
MaxFaulty == 1      \* the first MaxFaulty committees may suffer a short read

MaxShareSize == 3   \* share lists of 2..MaxShareSize values
MaxArg == 2         \* mod_inverse arguments from -MaxArg to p + MaxArg
MaxSendFail == 1    \* send_data attempts that may raise in one run
MaxCalls == 3       \* calls the coroutine makes on the endpoint in one run
MaxPeers == 1       \* peers that connect to the endpoint
MaxInbox == 3       \* lines the inbox holds at most
MaxExpected == 2    \* expected_count of a recv_values is 0..MaxExpected

ThreePrimes == {5, 7}
FourPrimes == {5}
OrchPrimes == {11, 13}
UtilPrimes == {2, 3, 5, 7}
UtilModuli == UtilPrimes \cup {4, 6, 9}

(***************************************************************************)
(* Program constants.                                                      *)
(***************************************************************************)
MinPort == 6100
MaxPort == 6200

None == 0 - 1       \* Python's None as a return value
Raised == 0 - 2     \* an operator's result when the code raises

Min(a, b) == IF a < b THEN a ELSE b

(***************************************************************************)
(* Prime-field arithmetic: PrimeOrderCyclicGroup.                          *)
(***************************************************************************)
RECURSIVE extended_gcd(_, _)
extended_gcd(a, b) ==
    IF b = 0 THEN <<a, 1, 0>>
    ELSE LET r == extended_gcd(b, a % b)
         IN  <<r[1], r[3], r[2] - (a \div b) * r[3]>>

\* Faulty variant of mod_inverse: the coefficient is returned unreduced.
mod_inverse_unreduced(a, q) ==
    LET e == extended_gcd(a, q)
    IN  IF e[1] # 1 THEN Raised ELSE e[2]

\* Faulty variant of mod_inverse: only a zero argument is refused.
mod_inverse_zero_only(a, q) ==
    LET e == extended_gcd(a, q)
    IN  IF a % q = 0 THEN Raised ELSE e[2] % q

mod_inverse(a, q) ==
    LET e == extended_gcd(a, q)
    IN  IF e[1] # 1 THEN Raised ELSE e[2] % q

(***************************************************************************)
(* The random module: a deterministic stream per seed.  randint(lo, hi)    *)
(* is the stream's next value folded into lo..hi.                          *)
(***************************************************************************)
Mix(s, n) == ((7 * (s + 1) + 10 * n + 4) * (n + s + 1) + s * n) \div 4

randint(s, n, lo, hi) == lo + (Mix(s, n) % (hi - lo + 1))

(***************************************************************************)
(* Sharing primitives.  Each returns the share list; the caller advances   *)
(* draws by size - 1.                                                      *)
(***************************************************************************)
RECURSIVE SeqProduct(_, _)
SeqProduct(s, q) ==
    IF s = <<>> THEN 1 ELSE (SeqProduct(Tail(s), q) * Head(s)) % q

RECURSIVE SeqSum(_)
SeqSum(s) == IF s = <<>> THEN 0 ELSE Head(s) + SeqSum(Tail(s))

\* Faulty variant of one_share_last: the product itself closes the list.
one_share_last_product(shares, q) == Append(shares, SeqProduct(shares, q))

\* utils.py 97-104: the product of the drawn shares and the closing share
one_share_last(shares, q) ==
    Append(shares, mod_inverse(SeqProduct(shares, q), q))

\* Faulty variant of zero_share_last: the total itself closes the list.
zero_share_last_total(shares, q) == Append(shares, SeqSum(shares) % q)

\* utils.py 125-130: the total of the drawn shares and the closing share
zero_share_last(shares, q) ==
    LET total == SeqSum(shares) % q
    IN  Append(shares, (0 - total) % q)

mini_one_share(q, s, n, size) ==
    one_share_last([m \in 1..(size - 1) |-> randint(s, n + m - 1, 1, q - 1)], q)

mini_zero_share(q, s, n, size) ==
    zero_share_last([m \in 1..(size - 1) |-> randint(s, n + m - 1, 0, q - 1)], q)

(***************************************************************************)
(* PortManager.                                                            *)
(***************************************************************************)
FullPool == MinPort..MaxPort

\* the element of S with k smaller elements in S, by bisection of lo..hi
RECURSIVE KthIn(_, _, _, _)
KthIn(S, k, lo, hi) ==
    IF lo = hi THEN lo
    ELSE LET mid == (lo + hi) \div 2
         IN  IF Cardinality(S \cap (MinPort..mid)) > k
             THEN KthIn(S, k, lo, mid)
             ELSE KthIn(S, k, mid + 1, hi)

KthSmallest(S, k) == KthIn(S, k, MinPort, MaxPort)

\* get_port on free set S: the port random.choice picks (None: it raises).
get_port(S, s, n) ==
    IF S = {} THEN None
    ELSE KthSmallest(S, randint(s, n, 0, Cardinality(S) - 1))

\* Faulty variant of release_port: the range is not looked at.
release_port_any(S, port) == S \cup {port}

release_port(S, port) ==
    IF MinPort <= port /\ port <= MaxPort THEN S \cup {port} ELSE S

(***************************************************************************)
(* Wire encoding: send_value writes str(int(v)), recv_values parses the    *)
(* line with int().  A decimal string is the sequence of its digits.       *)
(***************************************************************************)
RECURSIVE str_int(_)
str_int(v) == IF v < 10 THEN <<v>> ELSE Append(str_int(v \div 10), v % 10)

RECURSIVE parse_int(_)
parse_int(s) ==
    IF s = <<>> THEN 0
    ELSE parse_int(SubSeq(s, 1, Len(s) - 1)) * 10 + s[Len(s)]

(***************************************************************************)
(* Participants of a sub-protocol.                                         *)
(***************************************************************************)
Party == {"i", "j", "k", "l"}
Parties3 == <<"i", "j", "k">>
Parties4 == <<"i", "j", "k", "l">>

Members == IF proto = "four" THEN Parties4 ELSE Parties3
MemberSet == {Members[m] : m \in 1..Len(Members)}

Msg(src, dst, v) == [src |-> src, dst |-> dst, val |-> str_int(v)]

Perms(S) ==
    {f \in [1..Cardinality(S) -> S] :
        \A a, b \in 1..Cardinality(S) : a # b => f[a] # f[b]}

NoLocals ==
    [r11 |-> 0, r22 |-> 0, r33 |-> 0, r44 |-> 0,
     r1 |-> 0, r2 |-> 0, r3 |-> 0, r4 |-> 0,
     x_j_x_k_1 |-> 0, A |-> 0, a1 |-> 0, a2 |-> 0, a3 |-> 0, a4 |-> 0,
     denominator |-> 0, last1 |-> 0, numerator |-> 0, final_res |-> 0]

NoVals == [q \in Party |-> <<>>]

(***************************************************************************)
(* Setup of a sub-protocol: protocol.py 62-83, protocol_extension.py 67-91 *)
(***************************************************************************)
\* Faulty variant of pool_without: the port stays in the free set.
pool_without_kept(S, port) == S

\* async_socket_communication.py 468: self.available_ports.remove(port)
pool_without(S, port) == S \ {port}

\* k successive get_port calls on free set S, the n-th draw first.
RECURSIVE acquire(_, _, _, _)
acquire(S, s, n, k) ==
    IF k = 0 THEN [got |-> <<>>, free |-> S, ok |-> TRUE]
    ELSE IF get_port(S, s, n) = None THEN [got |-> <<>>, free |-> S, ok |-> FALSE]
    ELSE LET port == get_port(S, s, n)
             rest == acquire(pool_without(S, port), s, n + 1, k - 1)
         IN  [got |-> <<port>> \o rest.got, free |-> rest.free, ok |-> rest.ok]

\* Faulty variant of release_all: only the last port is returned.
release_last_only(S, got) ==
    IF got = <<>> THEN S ELSE release_port(S, got[Len(got)])

RECURSIVE release_all(_, _)
release_all(S, got) ==
    IF got = <<>> THEN S
    ELSE release_all(release_port(S, Head(got)), Tail(got))


HeldPorts == [m \in 1..Len(Members) |-> ports[Members[m]]]

\* The three (four) get_port calls and create_participant; when a get_port
\* raises, the except branch releases the ports already held and returns None.
AcquirePorts ==
    /\ pc = "setup"
    /\ LET a == acquire(available_ports, seed, draws, Len(Members))
       IN  IF a.ok
           THEN /\ ports' = [q \in Party |->
                               IF \E m \in 1..Len(Members) : Members[m] = q
                               THEN a.got[CHOOSE m \in 1..Len(Members) : Members[m] = q]
                               ELSE 0]
                /\ available_ports' = a.free
                /\ draws' = draws + Len(Members)
                /\ pc' = "start"
                /\ UNCHANGED <<result, exhausted>>
           ELSE /\ available_ports' = release_all(a.free, a.got)
                /\ draws' = draws + Len(a.got)
                /\ exhausted' = TRUE
                /\ result' = None
                /\ pc' = "done"
                /\ UNCHANGED ports
    /\ UNCHANGED <<unitVars, orchVars, initial_ports, p, seed, proto, x, x_star, running, loc, outbox, inbox, vals,
                   lost, short, sentAfterShort, send_fails, tele, startFailed>>

\* asyncio.gather of the start() calls.  A start() that raises leaves the
\* other listeners up; the except branch releases the ports and returns None.
StartEndpoints ==
    /\ pc = "start"
    /\ \E failed \in SUBSET MemberSet :
        /\ Cardinality(failed) <= MaxStartFail
        /\ running' = MemberSet \ failed
        /\ startFailed' = (failed # {})
        /\ IF failed = {}
           THEN /\ pc' = "round1"
                /\ UNCHANGED <<available_ports, result>>
           ELSE /\ available_ports' = release_all(available_ports, HeldPorts)
                /\ result' = None
                /\ pc' = "done"
    /\ UNCHANGED <<unitVars, orchVars, initial_ports, p, seed, draws, proto, x, x_star, ports, loc, outbox, inbox,
                   vals, lost, short, sentAfterShort, send_fails, tele, exhausted>>

(***************************************************************************)
(* recv_values(k) of participant q, awaited to its return.  The messages   *)
(* written to q arrive in any order (one stream per sender); a message     *)
(* whose send failed, or that is later than the deadline, does not arrive. *)
(* The call returns the k oldest inbox entries once k are there, and       *)
(* whatever is there at the deadline otherwise.                            *)
(***************************************************************************)
\* 189-190: the bytes of the lines of the messages ms, data + "\n" each
RECURSIVE bytes_of(_)
bytes_of(ms) ==
    IF ms = {} THEN 0
    ELSE LET m == CHOOSE m \in ms : TRUE
         IN  Len(m.val) + 1 + bytes_of(ms \ {m})

\* async_socket_communication.py 44-47: the counters of fresh endpoints
NoTelemetry ==
    [send_rounds |-> 0, recv_rounds |-> 0,
     send_data_size |-> 0, recv_data_size |-> 0]

\* Faulty variant of recv_stats: the round is counted per line, in
\* handle_client.
recv_stats_per_line(t, got) ==
    [t EXCEPT !.recv_rounds = @ + (IF got > 0 THEN 2 ELSE 1),
              !.recv_data_size = @ + got]

\* 98-100: handle_client adds the bytes of every line it reads;
\* 294-295, 340-341: recv_values counts one round when it returns
recv_stats(t, got) ==
    [t EXCEPT !.recv_rounds = @ + 1, !.recv_data_size = @ + got]

\* 215-218: a send_data that wrote its line adds its bytes and one round
sent_stats(t, ms) ==
    [t EXCEPT !.send_rounds = @ + Cardinality(ms),
              !.send_data_size = @ + bytes_of(ms)]

\* the messages of ms, one per sender, in the order the senders are listed in
in_peer_order(ms) ==
    LET from == SelectSeq(<<"i", "j", "k", "l">>, LAMBDA a : \E m \in ms : m.src = a)
    IN  [n \in 1..Len(from) |-> CHOOSE m \in ms : m.src = from[n]]

RecvOutcomes(q, k, lostBefore) ==
    LET pending == {m \in outbox : m.dst = q}
        outcome_of(arrived, ord) ==
            LET box == inbox[q] \o [n \in 1..Cardinality(arrived) |-> ord[n].val]
                cnt == IF Len(box) >= k THEN k ELSE Len(box)
            IN  [vals  |-> [n \in 1..cnt |-> parse_int(box[n])],
                 rest  |-> SubSeq(box, cnt + 1, Len(box)),
                 lost  |-> lostBefore + Cardinality(pending \ arrived),
                 short |-> cnt < k,
                 swapped |-> ord # in_peer_order(arrived),
                 bytes |-> bytes_of(arrived)]
    IN  UNION {{outcome_of(arrived, ord) : ord \in Perms(arrived)} :
                arrived \in {a \in SUBSET pending :
                               lostBefore + Cardinality(pending \ a) <= MaxLost}}

\* the messages that were written to the participants in qs
SentTo(qs) == {m \in outbox : m.dst \in qs}

Recv(q, k, next) ==
    /\ \E o \in RecvOutcomes(q, k, lost) :
          /\ vals' = [vals EXCEPT ![q] = o.vals]
          /\ inbox' = [inbox EXCEPT ![q] = o.rest]
          /\ short' = (short \/ o.short)
          /\ lost' = o.lost
          /\ reordered' = (reordered \/ o.swapped)
          /\ tele' = recv_stats(tele, o.bytes)
    /\ outbox' = outbox \ SentTo({q})
    /\ pc' = next
    /\ UNCHANGED <<utilVars, epVars, earlierVars, streamVars, inboxVars, routed,
                   orchVars, initial_ports, p, seed, draws, available_ports, proto,
                   x, x_star, ports, running, loc, result, sentAfterShort, send_fails,
                   exhausted, startFailed>>

\* Faulty variant of retries: send_data is told not to retry.
no_retries == 3 - 3

retries == 3            \* send_data's default, line 168

\* Faulty variant of may_retry: one attempt fewer.
may_retry_short(att) == att < retries

\* 193, 233: while attempt <= retries
may_retry(att) == att <= retries

DEFAULT_RECV_TIMEOUT == 5000    \* the deadline of a recv_values, in ms

\* 234: the sleep after the failure that made attempt att, in ms, with the
\* jitter at its largest
backoff_ms(att) == 100 * (2 ^ att) + 100

RECURSIVE backoff_total(_)
backoff_total(f) == IF f = 0 THEN 0 ELSE backoff_total(f - 1) + backoff_ms(f)

\* A send_data whose first f attempts raise writes its line when a further
\* attempt is left.  A recv_values armed before the sends (create_task,
\* protocol.py 113-115, 172, 206) has its deadline running meanwhile; one
\* called after the gathered sends (protocol_extension.py 145) has not.
delivered(f, armed) ==
    may_retry(f) /\ (armed => backoff_total(f) < DEFAULT_RECV_TIMEOUT)

\* send_value calls gathered in one segment.  The attempts that raise in
\* one segment are those of one of its send_data calls.
SendFrom(t, box, msgs, armed) ==
    /\ \E f \in 0..Min(MaxSendFail - send_fails, retries + 1) :
        /\ send_fails' = send_fails + f
        /\ IF delivered(f, armed)
           THEN /\ outbox' = box \cup msgs
                /\ tele' = sent_stats(t, msgs)
           ELSE \E victim \in msgs :
                  /\ outbox' = box \cup (msgs \ {victim})
                  /\ tele' = sent_stats(t, IF may_retry(f) THEN msgs
                                           ELSE msgs \ {victim})
    /\ sentAfterShort' = (sentAfterShort \/ short)

\* the same, the counters standing as the endpoints have them
Send(box, msgs, armed) == SendFrom(tele, box, msgs, armed)

\* cleanup_resources, and the return that follows it.
\* Faulty variant of cleanup_close: no endpoint is closed.
cleanup_keep_listeners(parts) == running

cleanup_close(parts) == running \ parts

Cleanup ==
    /\ pc \in {"abort", "finish"}
    /\ running' = cleanup_close(MemberSet)
    /\ inbox' = [q \in Party |-> IF q \in MemberSet THEN <<>> ELSE inbox[q]]
    /\ available_ports' = release_all(available_ports, HeldPorts)
    /\ result' = IF pc = "abort" THEN None ELSE loc.final_res
    /\ pc' = "done"
    /\ loc' = NoLocals /\ vals' = NoVals /\ outbox' = {}
    /\ UNCHANGED <<unitVars, orchVars, initial_ports, p, seed, draws, proto, x, x_star, ports,
                   lost, short, sentAfterShort, send_fails, tele, exhausted, startFailed>>

(***************************************************************************)
(* three_party_compute, protocol.py 90-233.                                *)
(***************************************************************************)
\* 91-126: the three one-shares, the six masked values, the three armed
\* recv_values tasks and the gathered sends of the first round.
RoundA_Send3 ==
    /\ proto = "three" /\ pc = "round1"
    /\ LET row1 == mini_one_share(p, seed, draws, 3)
           row2 == mini_one_share(p, seed, draws + 2, 3)
           row3 == mini_one_share(p, seed, draws + 4, 3)
           r11 == row1[1]  r12 == row1[2]  r13 == row1[3]
           r21 == row2[1]  r22 == row2[2]  r23 == row2[3]
           r31 == row3[1]  r32 == row3[2]  r33 == row3[3]
           masked_ij == (r21 * x["i"]) % p
           masked_ik == (r31 * x["i"]) % p
           masked_ji == (r12 * x["j"]) % p
           masked_jk == (r32 * x["j"]) % p
           masked_ki == (r13 * x["k"]) % p
           masked_kj == (r23 * x["k"]) % p
       IN  /\ Send(outbox, {Msg("i", "j", masked_ij), Msg("i", "k", masked_ik),
                            Msg("j", "i", masked_ji), Msg("j", "k", masked_jk),
                            Msg("k", "i", masked_ki), Msg("k", "j", masked_kj)}, TRUE)
           /\ loc' = [loc EXCEPT !.r11 = r11, !.r22 = r22, !.r33 = r33]
    /\ draws' = draws + 6
    /\ pc' = "A_recv"
    /\ UNCHANGED <<unitVars, orchVars, initial_ports, p, seed, available_ports, proto, x,
                   x_star, ports, running, inbox, vals, result, lost, short,
                   exhausted, startFailed>>

\* Faulty variant of delta3: the product is added instead of subtracted.
delta3_plus(a, prod, q) == (a + prod) % q

delta3(a, prod, q) == (a - prod) % q

\* 131-178: vals_i, vals_j, vals_k = await recv_..._task, one after the
\* other, then the length check of the first round, A, the zero-share, the
\* two deltas, the armed recv_values of P_i and the gathered sends.  Nothing
\* else of the run executes between the three awaits.
RecvA_SendB3 ==
    /\ proto = "three" /\ pc = "A_recv"
    /\ \E oi \in RecvOutcomes("i", 2, lost) :
       \E oj \in RecvOutcomes("j", 2, oi.lost) :
       \E ok \in RecvOutcomes("k", 2, oj.lost) :
         LET vals_i == oi.vals
             vals_j == oj.vals
             vals_k == ok.vals
             rest == outbox \ SentTo({"i", "j", "k"})
             read == recv_stats(recv_stats(recv_stats(tele, oi.bytes),
                                           oj.bytes), ok.bytes)
         IN  /\ reordered' = (reordered \/ oi.swapped \/ oj.swapped \/ ok.swapped)
             /\ inbox' = [inbox EXCEPT !["i"] = oi.rest, !["j"] = oj.rest,
                                        !["k"] = ok.rest]
             /\ lost' = ok.lost
             /\ short' = (short \/ oi.short \/ oj.short \/ ok.short)
             /\ IF Len(vals_i) < 2 \/ Len(vals_j) < 2 \/ Len(vals_k) < 2
                THEN /\ pc' = "abort"
                     /\ outbox' = rest
                     /\ tele' = read
                     /\ UNCHANGED <<draws, loc, sentAfterShort, send_fails>>
                ELSE LET chunk_j == vals_i[1]
                         chunk_k == vals_i[2]
                         x_i_sqr == (x["i"] * x["i"]) % p
                         x_j_x_k == (loc.r11 * chunk_j * chunk_k) % p
                         A == (x_i_sqr + x_j_x_k) % p
                         zero_sh == mini_zero_share(p, seed, draws, 3)
                         a1 == zero_sh[1]  a2 == zero_sh[2]  a3 == zero_sh[3]
                         chunkj_i == vals_j[1]
                         chunkj_k == vals_j[2]
                         xixk == (chunkj_i * loc.r22 * chunkj_k) % p
                         delta_j == delta3(a2, xixk, p)
                         chunkk_i == vals_k[1]
                         chunkk_j == vals_k[2]
                         xixj == (chunkk_i * chunkk_j * loc.r33) % p
                         delta_k == delta3(a3, xixj, p)
                     IN  /\ SendFrom(read, rest, {Msg("j", "i", delta_j),
                                                   Msg("k", "i", delta_k)}, TRUE)
                         /\ loc' = [loc EXCEPT !.A = A, !.a1 = a1]
                         /\ draws' = draws + 2
                         /\ pc' = "B_recv"
    /\ vals' = NoVals
    /\ UNCHANGED <<utilVars, epVars, earlierVars, streamVars, inboxVars, routed,
                   orchVars, initial_ports, p, seed, available_ports, proto, x,
                   x_star, ports, running, result, exhausted, startFailed>>

\* 181: vals2_i = await recv_delta_task
RecvB3 == proto = "three" /\ pc = "B_recv" /\ Recv("i", 2, "B_check")

\* Faulty variant of denominator3: the first inbox entry is read twice.
denominator3_first(a1, A, d, q) == (a1 + A + d[1] + d[1]) % q

\* protocol.py 190: denominator = (a1 + A + d_j + d_k) % p, d the two values
\* of vals2_i in inbox order
denominator3(a1, A, d, q) == (a1 + A + d[1] + d[2]) % q

\* 182-212: the length check, the denominator, the last one-share and the
\* gathered sends of the numerator round.
CheckB_SendC3 ==
    /\ proto = "three" /\ pc = "B_check"
    /\ IF Len(vals["i"]) < 2
       THEN /\ pc' = "abort"
            /\ UNCHANGED <<draws, loc, outbox, sentAfterShort, send_fails, tele>>
       ELSE LET d_j == vals["i"][1]
                d_k == vals["i"][2]
                denominator == denominator3(loc.a1, loc.A, <<d_j, d_k>>, p)
                share_last == mini_one_share(p, seed, draws, 3)
                r1 == share_last[1]  r2 == share_last[2]  r3 == share_last[3]
                masked_j == (r2 * ((x_star - x["j"]) % p)) % p
                masked_k_ == (r3 * ((x_star - x["k"]) % p)) % p
            IN  /\ Send(outbox, {Msg("j", "i", masked_j), Msg("k", "i", masked_k_)}, TRUE)
                /\ loc' = [loc EXCEPT !.denominator = denominator, !.last1 = r1]
                /\ draws' = draws + 2
                /\ pc' = "C_recv"
    /\ vals' = NoVals
    /\ UNCHANGED <<unitVars, orchVars, initial_ports, p, seed, available_ports, proto, x, x_star, ports, running,
                   inbox, result, lost, short, exhausted, startFailed>>

\* 215: vals3_i = await recv_final_task
RecvC3 == proto = "three" /\ pc = "C_recv" /\ Recv("i", 2, "C_check")

\* 216-233: the length check, the numerator and the final division; a
\* mod_inverse that raises lands in the except branch.
Finish3 ==
    /\ proto = "three" /\ pc = "C_check"
    /\ IF Len(vals["i"]) < 2
       THEN pc' = "abort" /\ UNCHANGED loc
       ELSE LET vj_ == vals["i"][1]
                vk_ == vals["i"][2]
                numerator == (loc.last1 * vj_ * vk_) % p
                denom_inv == mod_inverse(loc.denominator, p)
            IN  IF denom_inv = Raised
                THEN pc' = "abort" /\ UNCHANGED loc
                ELSE /\ loc' = [loc EXCEPT !.numerator = numerator,
                                           !.final_res = (numerator * denom_inv) % p]
                     /\ pc' = "finish"
    /\ vals' = NoVals
    /\ UNCHANGED <<unitVars, orchVars, initial_ports, p, seed, draws, available_ports, proto, x, x_star, ports,
                   running, outbox, inbox, result, lost, short,
                   sentAfterShort, send_fails, tele, exhausted, startFailed>>

(***************************************************************************)
(* One run of three_party_compute.                                         *)
(***************************************************************************)
XVals(q) == 0..Min(MaxX, q - 1)

\* no library function is called on its own
NoCall == [fn |-> "none"]

\* the endpoint as AsyncSocketCommunication.__init__ leaves it, lines 31-52
EpIdle ==
    /\ received_data = <<>>
    /\ data_available = FALSE
    /\ is_running = FALSE
    /\ server = "none"
    /\ connections = {}
    /\ connection_locks = {}
    /\ handlers = 0
    /\ epc = "idle"
    /\ expired = FALSE
    /\ recv_res = <<>>
    /\ attempt = 0
    /\ wire = <<>>
    /\ tries = 0
    /\ closes = 0
    /\ calls = 0

\* the coroutines that call the port pool on their own
Holder == {"a", "b"}

PoolIdle == held = [h \in Holder |-> {}]

\* no sub-protocol schedule is followed
SchedIdle ==
    /\ sched_at = 0
    /\ ready = <<>>
    /\ task_state = <<>>
    /\ written = <<>>
    /\ landed = <<>>

\* no other coroutine has called close()
ShutIdle == closer = [at |-> "idle", recv |-> "none"]

\* the coroutines that send to the same destination at the same time
Sender == {"s1", "s2"}

\* no send_data runs beside another
ConnIdle ==
    /\ senders = [c \in Sender |-> [at |-> "idle", lock |-> 0, writer |-> 0,
                                     attempt |-> 0, fresh_after |-> 0]]
    /\ opened = 0
    /\ closing = {}
    /\ broken = {}
    /\ lock_made = 0
    /\ locked = {}

\* 46-47: self.send_rounds = 0, self.recv_rounds = 0
StatIdle == send_rounds = 0 /\ recv_rounds = 0

\* inbound streams the endpoint may accept
MaxStreams == 2
Stream == 1..MaxStreams

\* no stream has been accepted
StreamIdle ==
    streams = [s \in Stream |-> [at |-> "none", timeouts |-> 0, closing |-> FALSE]]

\* nothing has been received yet
TraceIdle == reordered = FALSE /\ routed = {}

\* async_socket_communication.py 38: self.received_data = [] of every
\* participant; no recv_values has returned
InboxIdle ==
    /\ boxes = [q \in {"i", "j", "k", "l"} |-> <<>>]
    /\ consumed = [q \in {"i", "j", "k", "l"} |-> [r \in 1..4 |-> <<>>]]

\* no send_data runs on a capped endpoint
BwIdle ==
    bw = [at |-> "idle", max_bandwidth |-> 0, data_len |-> 0, chunk_size |-> 0,
          sent |-> 0, passes |-> 0, attempt |-> 0, ret |-> None]

LaterIdle == StreamIdle /\ TraceIdle /\ InboxIdle /\ BwIdle

UnitIdle ==
    /\ call = NoCall /\ ret = None
    /\ EpIdle /\ PoolIdle /\ SchedIdle /\ ShutIdle /\ ConnIdle /\ StatIdle
    /\ LaterIdle

PoolStates == {FullPool} \cup {MinPort..(MinPort + f - 1) : f \in 0..MaxFree}

InitSub(which) ==
    /\ p \in (IF which = "three" THEN ThreePrimes ELSE FourPrimes)
    /\ seed \in 0..MaxSeed
    /\ draws = 0
    /\ available_ports \in PoolStates
    /\ initial_ports = available_ports
    /\ proto = which
    /\ pc = "setup"
    /\ x \in {f \in [Party -> XVals(p)] : which = "three" => f["l"] = 0}
    /\ x_star \in XVals(p)
    /\ ports = [q \in Party |-> 0]
    /\ running = {}
    /\ loc = NoLocals
    /\ outbox = {}
    /\ inbox = [q \in Party |-> <<>>]
    /\ vals = [q \in Party |-> <<>>]
    /\ result = None
    /\ lost = 0
    /\ short = FALSE
    /\ sentAfterShort = FALSE
    /\ send_fails = 0
    /\ tele = NoTelemetry
    /\ exhausted = FALSE
    /\ startFailed = FALSE
    /\ opc = "idle"
    /\ points = <<>>
    /\ triples = <<>>
    /\ computation_tasks = <<>>
    /\ launched = 0
    /\ task_ports = <<>>
    /\ task_results = <<>>
    /\ y_star = None
    /\ outcome = "none"
    /\ UnitIdle

InitThree == InitSub("three")

NextThree ==
    \/ AcquirePorts
    \/ StartEndpoints
    \/ RoundA_Send3
    \/ RecvA_SendB3
    \/ RecvB3
    \/ CheckB_SendC3
    \/ RecvC3
    \/ Finish3
    \/ Cleanup

SpecThree == InitThree /\ [][NextThree]_vars

(***************************************************************************)
(* four_party_compute, protocol_extension.py 93-282.                       *)
(***************************************************************************)
\* 99-142: four one-shares and a zero-share of size 4, the twelve masked
\* values and their gathered sends (no recv_values is armed yet).
Round1_Send4 ==
    /\ proto = "four" /\ pc = "round1"
    /\ LET row1 == mini_one_share(p, seed, draws, 4)
           row2 == mini_one_share(p, seed, draws + 3, 4)
           row3 == mini_one_share(p, seed, draws + 6, 4)
           row4 == mini_one_share(p, seed, draws + 9, 4)
           share_mat_0 == mini_zero_share(p, seed, draws + 12, 4)
           r11 == row1[1]  r12 == row1[2]  r13 == row1[3]  r14 == row1[4]
           r21 == row2[1]  r22 == row2[2]  r23 == row2[3]  r24 == row2[4]
           r31 == row3[1]  r32 == row3[2]  r33 == row3[3]  r34 == row3[4]
           r41 == row4[1]  r42 == row4[2]  r43 == row4[3]  r44 == row4[4]
           masked_ij == (r21 * x["i"]) % p
           masked_ik == (r31 * x["i"]) % p
           masked_il == (r41 * x["i"]) % p
           masked_ji == (r12 * x["j"]) % p
           masked_jk == (r32 * x["j"]) % p
           masked_jl == (r42 * x["j"]) % p
           masked_ki == (r13 * x["k"]) % p
           masked_kj == (r23 * x["k"]) % p
           masked_kl == (r43 * x["k"]) % p
           masked_li == (r14 * x["l"]) % p
           masked_lj == (r24 * x["l"]) % p
           masked_lk == (r34 * x["l"]) % p
       IN  /\ Send(outbox, {Msg("i", "j", masked_ij), Msg("i", "k", masked_ik),
                    Msg("i", "l", masked_il), Msg("j", "i", masked_ji),
                    Msg("j", "k", masked_jk), Msg("j", "l", masked_jl),
                    Msg("k", "i", masked_ki), Msg("k", "j", masked_kj),
                    Msg("k", "l", masked_kl), Msg("l", "i", masked_li),
                    Msg("l", "j", masked_lj), Msg("l", "k", masked_lk)}, FALSE)
           /\ loc' = [loc EXCEPT !.r11 = r11, !.r22 = r22, !.r33 = r33,
                                 !.r44 = r44,
                                 !.r1 = share_mat_0[1], !.r2 = share_mat_0[2],
                                 !.r3 = share_mat_0[3], !.r4 = share_mat_0[4]]
    /\ draws' = draws + 15
    /\ pc' = "R1_recv_i"
    /\ UNCHANGED <<unitVars, orchVars, initial_ports, p, seed, available_ports, proto, x, x_star, ports, running,
                   inbox, vals, result, lost, short, exhausted, startFailed>>

\* 145: vals_i = await P_i.recv_values(3)
Recv1_4 == proto = "four" /\ pc = "R1_recv_i" /\ Recv("i", 3, "R1_check")

\* 146-168: the length check, x_j*x_k*x_l from the masked values, and the
\* additively masked x_j, x_k, x_l sent to P_i.
Check1_Send2_4 ==
    /\ proto = "four" /\ pc = "R1_check"
    /\ IF Len(vals["i"]) < 3
       THEN /\ pc' = "abort"
            /\ UNCHANGED <<loc, outbox, sentAfterShort, send_fails, tele>>
       ELSE LET chunki_j == vals["i"][1]
                chunki_k == vals["i"][2]
                chunki_l == vals["i"][3]
                x_j_x_k_1 == (loc.r11 * chunki_j * chunki_k * chunki_l) % p
                masked_j == (loc.r2 + x["j"]) % p
                masked_k == (loc.r3 + x["k"]) % p
                masked_l == (loc.r4 + x["l"]) % p
            IN  /\ Send(outbox, {Msg("j", "i", masked_j), Msg("k", "i", masked_k),
                         Msg("l", "i", masked_l)}, FALSE)
                /\ loc' = [loc EXCEPT !.x_j_x_k_1 = x_j_x_k_1]
                /\ pc' = "R2_recv_i"
    /\ vals' = NoVals
    /\ UNCHANGED <<unitVars, orchVars, initial_ports, p, seed, draws, available_ports, proto, x, x_star, ports,
                   running, inbox, result, lost, short, exhausted, startFailed>>

\* 171: vals_i_1 = await P_i.recv_values(3)
Recv2_4 == proto = "four" /\ pc = "R2_recv_i" /\ Recv("i", 3, "R2_check")

\* 172-185: the length check, A, and the zero-share a1..a4.
\* Faulty variant of A4: the first product enters with the wrong sign.
A4_wrong_sign(cub, one, two, q) == (cub + one - two) % q

A4(cub, one, two, q) == (cub - one - two) % q

Check2_4 ==
    /\ proto = "four" /\ pc = "R2_check"
    /\ IF Len(vals["i"]) < 3
       THEN /\ pc' = "abort"
            /\ UNCHANGED <<draws, loc>>
       ELSE LET chunkj == vals["i"][1]
                chunkk == vals["i"][2]
                chunkl == vals["i"][3]
                x_i_sqr == (x["i"] * x["i"]) % p
                x_i_cub == (x["i"] * x["i"] * x["i"]) % p
                x_j_x_k_2 == (x_i_sqr * ((loc.r1 + chunkj + chunkk + chunkl) % p)) % p
                A == A4(x_i_cub, loc.x_j_x_k_1, x_j_x_k_2, p)
                zero_sh == mini_zero_share(p, seed, draws, 4)
            IN  /\ loc' = [loc EXCEPT !.A = A, !.a1 = zero_sh[1], !.a2 = zero_sh[2],
                                      !.a3 = zero_sh[3], !.a4 = zero_sh[4]]
                /\ draws' = draws + 3
                /\ pc' = "R1_recv_j"
    /\ vals' = NoVals
    /\ UNCHANGED <<unitVars, orchVars, initial_ports, p, seed, available_ports, proto, x, x_star, ports, running,
                   outbox, inbox, result, lost, short, sentAfterShort, send_fails, tele,
                   exhausted, startFailed>>

\* 188-227: vals_j, vals_k, vals_l = await P_<m>.recv_values(3), one after
\* the other, then the length checks, the three deltas and their gathered
\* sends.  Nothing else of the run executes between the three awaits.
RecvJKL_SendDelta4 ==
    /\ proto = "four" /\ pc = "R1_recv_j"
    /\ \E oj \in RecvOutcomes("j", 3, lost) :
       \E ok \in RecvOutcomes("k", 3, oj.lost) :
       \E ol \in RecvOutcomes("l", 3, ok.lost) :
         LET vals_j == oj.vals
             vals_k == ok.vals
             vals_l == ol.vals
             rest == outbox \ SentTo({"j", "k", "l"})
             read == recv_stats(recv_stats(recv_stats(tele, oj.bytes),
                                           ok.bytes), ol.bytes)
         IN  /\ reordered' = (reordered \/ oj.swapped \/ ok.swapped \/ ol.swapped)
             /\ inbox' = [inbox EXCEPT !["j"] = oj.rest, !["k"] = ok.rest,
                                        !["l"] = ol.rest]
             /\ lost' = ol.lost
             /\ short' = (short \/ oj.short \/ ok.short \/ ol.short)
             /\ IF Len(vals_j) < 3 \/ Len(vals_k) < 3 \/ Len(vals_l) < 3
                THEN /\ pc' = "abort"
                     /\ outbox' = rest
                     /\ tele' = read
                     /\ UNCHANGED <<sentAfterShort, send_fails>>
                ELSE LET xixkxl == (vals_j[1] * loc.r22 * vals_j[2] * vals_j[3]) % p
                         delta_j == (loc.a2 + xixkxl) % p
                         xixjxl == (vals_k[1] * vals_k[2] * loc.r33 * vals_k[3]) % p
                         delta_k == (loc.a3 + xixjxl) % p
                         xixjxk == (vals_l[1] * vals_l[2] * vals_l[3] * loc.r44) % p
                         delta_l == (loc.a4 + xixjxk) % p
                     IN  /\ SendFrom(read, rest,
                                  {Msg("j", "i", delta_j), Msg("k", "i", delta_k),
                                   Msg("l", "i", delta_l)}, FALSE)
                         /\ pc' = "D_recv"
    /\ vals' = NoVals
    /\ UNCHANGED <<utilVars, epVars, earlierVars, streamVars, inboxVars, routed,
                   orchVars, initial_ports, p, seed, draws, available_ports, proto,
                   x, x_star, ports, running, loc, result, exhausted,
                   startFailed>>

\* 230: vals2_i = await P_i.recv_values(3)
RecvD_4 == proto = "four" /\ pc = "D_recv" /\ Recv("i", 3, "D_check")

\* 231-261: the length check, the denominator, the last one-share and the
\* gathered sends of the numerator round.
CheckD_SendN4 ==
    /\ proto = "four" /\ pc = "D_check"
    /\ IF Len(vals["i"]) < 3
       THEN /\ pc' = "abort"
            /\ UNCHANGED <<draws, loc, outbox, sentAfterShort, send_fails, tele>>
       ELSE LET d_j == vals["i"][1]
                d_k == vals["i"][2]
                d_l == vals["i"][3]
                denominator == (loc.a1 + loc.A + d_j + d_k + d_l) % p
                share_last == mini_one_share(p, seed, draws, 4)
                rr1 == share_last[1]  rr2 == share_last[2]
                rr3 == share_last[3]  rr4 == share_last[4]
                masked_j_1 == (rr2 * ((x_star - x["j"]) % p)) % p
                masked_k_1 == (rr3 * ((x_star - x["k"]) % p)) % p
                masked_l_1 == (rr4 * ((x_star - x["l"]) % p)) % p
            IN  /\ Send(outbox, {Msg("j", "i", masked_j_1), Msg("k", "i", masked_k_1),
                         Msg("l", "i", masked_l_1)}, FALSE)
                /\ loc' = [loc EXCEPT !.denominator = denominator, !.last1 = rr1]
                /\ draws' = draws + 3
                /\ pc' = "N_recv"
    /\ vals' = NoVals
    /\ UNCHANGED <<unitVars, orchVars, initial_ports, p, seed, available_ports, proto, x, x_star, ports, running,
                   inbox, result, lost, short, exhausted, startFailed>>

\* 264: vals3_i = await P_i.recv_values(3)
RecvN_4 == proto = "four" /\ pc = "N_recv" /\ Recv("i", 3, "N_check")

\* 265-282: the length check, the numerator and the final division.
Finish4 ==
    /\ proto = "four" /\ pc = "N_check"
    /\ IF Len(vals["i"]) < 3
       THEN pc' = "abort" /\ UNCHANGED loc
       ELSE LET vj_ == vals["i"][1]
                vk_ == vals["i"][2]
                vl_ == vals["i"][3]
                numerator == (loc.last1 * vj_ * vk_ * vl_) % p
                denom_inv == mod_inverse(loc.denominator, p)
            IN  IF denom_inv = Raised
                THEN pc' = "abort" /\ UNCHANGED loc
                ELSE /\ loc' = [loc EXCEPT !.numerator = numerator,
                                           !.final_res = (numerator * denom_inv) % p]
                     /\ pc' = "finish"
    /\ vals' = NoVals
    /\ UNCHANGED <<unitVars, orchVars, initial_ports, p, seed, draws, available_ports, proto, x, x_star, ports,
                   running, outbox, inbox, result, lost, short,
                   sentAfterShort, send_fails, tele, exhausted, startFailed>>

InitFour == InitSub("four")

NextFour ==
    \/ AcquirePorts
    \/ StartEndpoints
    \/ Round1_Send4
    \/ Recv1_4
    \/ Check1_Send2_4
    \/ Recv2_4
    \/ Check2_4
    \/ RecvJKL_SendDelta4
    \/ RecvD_4
    \/ CheckD_SendN4
    \/ RecvN_4
    \/ Finish4
    \/ Cleanup

SpecFour == InitFour /\ [][NextFour]_vars


(***************************************************************************)
(* One run of either sub-protocol.                                         *)
(***************************************************************************)
InitSubAny == InitThree \/ InitFour

NextSub ==
    \/ AcquirePorts
    \/ StartEndpoints
    \/ RoundA_Send3
    \/ RecvA_SendB3
    \/ RecvB3
    \/ CheckB_SendC3
    \/ RecvC3
    \/ Finish3
    \/ Round1_Send4
    \/ Recv1_4
    \/ Check1_Send2_4
    \/ Recv2_4
    \/ Check2_4
    \/ RecvJKL_SendDelta4
    \/ RecvD_4
    \/ CheckD_SendN4
    \/ RecvN_4
    \/ Finish4
    \/ Cleanup

SpecSub == InitSubAny /\ [][NextSub]_vars

(***************************************************************************)
(* The value a committee returns when every message of every round is      *)
(* delivered: the sub-protocol's arithmetic in program order, the n-th     *)
(* draw of the random module first.  None when mod_inverse raises.         *)
(***************************************************************************)
Wire(v) == parse_int(str_int(v))

\* protocol.py 91-228
three_party_compute(x_i, x_j, x_k, xs, q, s, n) ==
    LET row1 == mini_one_share(q, s, n, 3)
        row2 == mini_one_share(q, s, n + 2, 3)
        row3 == mini_one_share(q, s, n + 4, 3)
        masked_ij == Wire((row2[1] * x_i) % q)
        masked_ik == Wire((row3[1] * x_i) % q)
        masked_ji == Wire((row1[2] * x_j) % q)
        masked_jk == Wire((row3[2] * x_j) % q)
        masked_ki == Wire((row1[3] * x_k) % q)
        masked_kj == Wire((row2[3] * x_k) % q)
        x_i_sqr == (x_i * x_i) % q
        x_j_x_k == (row1[1] * masked_ji * masked_ki) % q
        A == (x_i_sqr + x_j_x_k) % q
        zero_sh == mini_zero_share(q, s, n + 6, 3)
        xixk == (masked_ij * row2[2] * masked_kj) % q
        delta_j == Wire(delta3(zero_sh[2], xixk, q))
        xixj == (masked_ik * masked_jk * row3[3]) % q
        delta_k == Wire(delta3(zero_sh[3], xixj, q))
        denominator == denominator3(zero_sh[1], A, <<delta_j, delta_k>>, q)
        share_last == mini_one_share(q, s, n + 8, 3)
        masked_j == Wire((share_last[2] * ((xs - x_j) % q)) % q)
        masked_k == Wire((share_last[3] * ((xs - x_k) % q)) % q)
        numerator == (share_last[1] * masked_j * masked_k) % q
        denom_inv == mod_inverse(denominator, q)
    IN  IF denom_inv = Raised THEN None ELSE (numerator * denom_inv) % q

\* protocol_extension.py 99-277
four_party_compute(x_i, x_j, x_k, x_l, xs, q, s, n) ==
    LET row1 == mini_one_share(q, s, n, 4)
        row2 == mini_one_share(q, s, n + 3, 4)
        row3 == mini_one_share(q, s, n + 6, 4)
        row4 == mini_one_share(q, s, n + 9, 4)
        share_mat_0 == mini_zero_share(q, s, n + 12, 4)
        masked_ij == Wire((row2[1] * x_i) % q)
        masked_ik == Wire((row3[1] * x_i) % q)
        masked_il == Wire((row4[1] * x_i) % q)
        masked_ji == Wire((row1[2] * x_j) % q)
        masked_jk == Wire((row3[2] * x_j) % q)
        masked_jl == Wire((row4[2] * x_j) % q)
        masked_ki == Wire((row1[3] * x_k) % q)
        masked_kj == Wire((row2[3] * x_k) % q)
        masked_kl == Wire((row4[3] * x_k) % q)
        masked_li == Wire((row1[4] * x_l) % q)
        masked_lj == Wire((row2[4] * x_l) % q)
        masked_lk == Wire((row3[4] * x_l) % q)
        x_j_x_k_1 == (row1[1] * masked_ji * masked_ki * masked_li) % q
        masked_j == Wire((share_mat_0[2] + x_j) % q)
        masked_k == Wire((share_mat_0[3] + x_k) % q)
        masked_l == Wire((share_mat_0[4] + x_l) % q)
        x_i_sqr == (x_i * x_i) % q
        x_i_cub == (x_i * x_i * x_i) % q
        x_j_x_k_2 == (x_i_sqr * ((share_mat_0[1] + masked_j + masked_k + masked_l) % q)) % q
        A == A4(x_i_cub, x_j_x_k_1, x_j_x_k_2, q)
        zero_sh == mini_zero_share(q, s, n + 15, 4)
        xixkxl == (masked_ij * row2[2] * masked_kj * masked_lj) % q
        delta_j == Wire((zero_sh[2] + xixkxl) % q)
        xixjxl == (masked_ik * masked_jk * row3[3] * masked_lk) % q
        delta_k == Wire((zero_sh[3] + xixjxl) % q)
        xixjxk == (masked_il * masked_jl * masked_kl * row4[4]) % q
        delta_l == Wire((zero_sh[4] + xixjxk) % q)
        denominator == (zero_sh[1] + A + delta_j + delta_k + delta_l) % q
        share_last == mini_one_share(q, s, n + 18, 4)
        masked_j_1 == Wire((share_last[2] * ((xs - x_j) % q)) % q)
        masked_k_1 == Wire((share_last[3] * ((xs - x_k) % q)) % q)
        masked_l_1 == Wire((share_last[4] * ((xs - x_l) % q)) % q)
        numerator == (share_last[1] * masked_j_1 * masked_k_1 * masked_l_1) % q
        denom_inv == mod_inverse(denominator, q)
    IN  IF denom_inv = Raised THEN None ELSE (numerator * denom_inv) % q

(***************************************************************************)
(* The committee planner, utils.py 37-78.                                  *)
(***************************************************************************)
\* Faulty variant of remaining: the owner is not removed.
remaining_with_owner(i, n) == [m \in 1..n |-> m]

remaining(i, n) == SelectSeq([m \in 1..n |-> m], LAMBDA m : m # i)

\* remaining[j:j+2] with Python's 0-based j
slice2(rem, j) == SubSeq(rem, j + 1, Min(j + 2, Len(rem)))

\* the triples the odd branch appends for owner i
owner_triples_odd(i, n) ==
    LET rem == remaining(i, n)
    IN  [t \in 1..((Len(rem) + 1) \div 2) |-> <<i>> \o slice2(rem, 2 * (t - 1))]

\* Faulty variant of owner_triples_even: the pairing loop runs over the
\* whole of remaining, as in the odd branch, and the element left over
\* becomes a committee of its own.
owner_triples_even_all(i, n) == owner_triples_odd(i, n)

\* Faulty variant of owner_triples_even: the element left over joins the
\* owner's first triple instead of the last.
owner_triples_even_first(i, n) ==
    LET rem == remaining(i, n)
        cnt == Len(rem) \div 2
        base == [t \in 1..cnt |-> <<i>> \o slice2(rem, 2 * (t - 1))]
    IN  IF Len(rem) % 2 = 1 /\ cnt > 0
        THEN [base EXCEPT ![1] = @ \o <<rem[Len(rem)]>>]
        ELSE base

\* the triples the even branch appends for owner i; the element left over
\* joins the owner's last triple
owner_triples_even(i, n) ==
    LET rem == remaining(i, n)
        cnt == Len(rem) \div 2
        base == [t \in 1..cnt |-> <<i>> \o slice2(rem, 2 * (t - 1))]
    IN  IF Len(rem) % 2 = 1 /\ cnt > 0
        THEN [base EXCEPT ![cnt] = @ \o <<rem[Len(rem)]>>]
        ELSE base

RECURSIVE triples_from(_, _)
triples_from(i, n) ==
    IF i > n THEN <<>>
    ELSE (IF n % 2 = 1 THEN owner_triples_odd(i, n) ELSE owner_triples_even(i, n))
         \o triples_from(i + 1, n)

generate_triples(n) == triples_from(1, n)

(***************************************************************************)
(* secure_lagrange_interpolation, protocol_extension.py 309-505.           *)
(*                                                                         *)
(* asyncio.gather starts the committee coroutines in list order and each   *)
(* runs to its first suspension, the start() of its endpoints, so every    *)
(* committee's get_port calls run, in list order, before any committee     *)
(* returns.  From there on a committee is one step, Settle, which takes    *)
(* it to its return; committees are settled in list order, which loses     *)
(* nothing: the returns commute (a product per owner, a union of freed     *)
(* ports) and the returned value does not depend on the shares drawn.      *)
(***************************************************************************)
MIN_PARTIES == 3
MAX_PARTIES == 9

Pending == 0 - 3    \* a gathered task that has not returned yet

party_num == Len(points)

\* Faulty variant of valid_party_num: one party too many is let through.
valid_party_num_loose(n) == MIN_PARTIES <= n /\ n <= MAX_PARTIES + 1

\* 342: MIN_PARTIES <= party_num <= MAX_PARTIES
valid_party_num(n) == MIN_PARTIES <= n /\ n <= MAX_PARTIES

\* 339-345: the argument check, outside the try block
Validate ==
    /\ opc = "validate"
    /\ IF valid_party_num(party_num)
       THEN opc' = "plan" /\ UNCHANGED outcome
       ELSE opc' = "done" /\ outcome' = "ValueError"
    /\ UNCHANGED <<unitVars, envVars, subVars, points, triples, computation_tasks,
                   launched, task_ports, task_results, y_star>>

\* 382-415: the coroutines handed to asyncio.gather, owner by owner
RECURSIVE tasks_from(_, _, _)
tasks_from(trs, n, i) ==
    IF i > n THEN <<>>
    ELSE SelectSeq(trs, LAMBDA t : t[1] = i /\ (n % 2 = 1 \/ Len(t) \in {3, 4}))
         \o tasks_from(trs, n, i + 1)

\* 349-415: the committees are planned and their coroutines created
Plan ==
    /\ opc = "plan"
    /\ triples' = generate_triples(party_num)
    /\ LET tasks == tasks_from(generate_triples(party_num), party_num, 1)
       IN  /\ computation_tasks' = tasks
           /\ task_ports' = [k \in 1..Len(tasks) |-> <<>>]
           /\ task_results' = [k \in 1..Len(tasks) |-> Pending]
    /\ launched' = 0
    /\ opc' = "launch"
    /\ UNCHANGED <<unitVars, envVars, subVars, points, y_star, outcome>>

\* four_party_compute is dispatched for the 4-tuples of an even party count
is_four(t) == party_num % 2 = 0 /\ Len(t) = 4

\* The setup of the next gathered task up to its first suspension: its
\* get_port calls (protocol.py 62-64, protocol_extension.py 68-71); when
\* one raises, the except branch frees the ports held and the task returns
\* None.
Launch ==
    /\ opc = "launch"
    /\ launched < Len(computation_tasks)
    /\ LET k == launched + 1
           t == computation_tasks[k]
           a == acquire(available_ports, seed, draws, IF is_four(t) THEN 4 ELSE 3)
       IN  /\ IF a.ok
              THEN /\ task_ports' = [task_ports EXCEPT ![k] = a.got]
                   /\ available_ports' = a.free
                   /\ UNCHANGED <<task_results, exhausted>>
              ELSE /\ available_ports' = release_all(a.free, a.got)
                   /\ task_results' = [task_results EXCEPT ![k] = None]
                   /\ exhausted' = TRUE
                   /\ UNCHANGED task_ports
           /\ draws' = draws + Len(a.got)
           /\ launched' = k
           /\ opc' = IF k = Len(computation_tasks) THEN "gather" ELSE "launch"
    /\ UNCHANGED <<unitVars, p, seed, proto, initial_ports, pc, x, x_star, ports, running,
                   loc, outbox, inbox, vals, result, lost, short,
                   sentAfterShort, send_fails, tele, startFailed, points, triples,
                   computation_tasks, y_star, outcome>>

\* Participant.__init__ reduces the private x modulo q
x_of(m) == points[m][1] % p

y_of(m) == points[m][2]

\* what the committee of task t returns when all its messages arrive
committee_value(t) ==
    IF is_four(t)
    THEN four_party_compute(x_of(t[1]), x_of(t[2]), x_of(t[3]), x_of(t[4]),
                            x_star % p, p, seed, draws)
    ELSE three_party_compute(x_of(t[1]), x_of(t[2]), x_of(t[3]),
                             x_star % p, p, seed, draws)

\* A launched committee runs to its return.  A message of its first round
\* may never arrive (timeout), or the first f attempts of one send_data of
\* that round may raise; the faults of a run hit its first MaxFaulty
\* committees.  When its first recv_values comes back short the committee
\* returns None.  Either way cleanup_resources frees its ports.
\* the committees whose endpoints listen: set up and not yet cleaned up
live_committees ==
    {m \in 1..Len(task_results) :
        m <= launched /\ task_results[m] = Pending /\ task_ports[m] # <<>>}

\* participant.py 79-83: send_value writes to other.comm.port; the line goes
\* to the endpoint that listens on that port -- the committees that have an
\* endpoint on one of the ports got
listening_on(got) ==
    {m \in live_committees :
        \E a \in 1..Len(got), b \in 1..Len(task_ports[m]) :
            task_ports[m][b] = got[a]}

Settle ==
    /\ opc = "gather"
    /\ \E k \in 1..Len(task_results) :
        /\ task_results[k] = Pending
        /\ \A m \in 1..(k - 1) : task_results[m] # Pending
        /\ \E timeout \in BOOLEAN, f \in 0..Min(MaxSendFail - send_fails, retries + 1) :
            /\ (timeout \/ f > 0) => k <= MaxFaulty
            /\ timeout => f = 0
            /\ LET t == computation_tasks[k]
                   failed == timeout \/ ~delivered(f, ~is_four(t))
               IN  /\ task_results' = [task_results EXCEPT ![k] =
                                         IF failed THEN None ELSE committee_value(t)]
                   /\ draws' = draws +
                        (IF failed THEN (IF is_four(t) THEN 15 ELSE 6)
                         ELSE (IF is_four(t) THEN 21 ELSE 10))
                   /\ short' = (short \/ failed)
            /\ lost' = lost + (IF timeout THEN 1 ELSE 0)
            /\ send_fails' = send_fails + f
        /\ routed' = routed \cup {<<k, m>> : m \in listening_on(task_ports[k])}
        /\ available_ports' = release_all(available_ports, task_ports[k])
        /\ task_ports' = [task_ports EXCEPT ![k] = <<>>]
    /\ UNCHANGED <<utilVars, epVars, earlierVars, streamVars, inboxVars,
                   reordered, tele, p, seed, proto, initial_ports, pc, x, x_star, ports,
                   running, loc, outbox, inbox, vals, result, sentAfterShort,
                   exhausted, startFailed, opc, points, triples,
                   computation_tasks, launched, y_star, outcome>>

\* Faulty variant of fold_results: the result replaces what the owner's
\* entry holds, as line 434 does with temp.
RECURSIVE fold_results_overwrite(_, _, _, _)
fold_results_overwrite(fv, tasks, res, k) ==
    IF k > Len(res) THEN fv
    ELSE IF res[k] = None THEN fold_results_overwrite(fv, tasks, res, k + 1)
    ELSE fold_results_overwrite([fv EXCEPT ![tasks[k][1]] = res[k] % p],
                                tasks, res, k + 1)

\* 423-441: the loop over task_results; a None result is skipped
RECURSIVE fold_results(_, _, _, _)
fold_results(fv, tasks, res, k) ==
    IF k > Len(res) THEN fv
    ELSE IF res[k] = None THEN fold_results(fv, tasks, res, k + 1)
    ELSE fold_results([fv EXCEPT ![tasks[k][1]] = (@ * res[k]) % p],
                      tasks, res, k + 1)

\* 446-447: the final multiplication by y_i
final_value ==
    LET fv == fold_results([i \in 1..party_num |-> 1], computation_tasks,
                           task_results, 1)
    IN  [i \in 1..party_num |-> (fv[i] * y_of(i)) % p]

\* 450-452: y_star accumulates the final values
RECURSIVE sum_mod(_, _)
sum_mod(s, k) == IF k = 0 THEN 0 ELSE (sum_mod(s, k - 1) + s[k]) % p

\* Faulty variant of gather_returned: the gather ends with the first task
\* that fails.
gather_first_failure(res) ==
    \/ \E k \in 1..Len(res) : res[k] = None
    \/ \A k \in 1..Len(res) : res[k] # Pending

\* 419: await asyncio.gather(*computation_tasks, return_exceptions=True)
\* returns when every task has returned or raised
gather_returned(res) == \A k \in 1..Len(res) : res[k] # Pending

\* 419-478: gather has returned; the results are folded and y_star returned
Aggregate ==
    /\ opc = "gather"
    /\ gather_returned(task_results)
    /\ y_star' = sum_mod(final_value, party_num)
    /\ outcome' = "value"
    /\ opc' = "done"
    /\ UNCHANGED <<unitVars, envVars, subVars, points, triples, computation_tasks,
                   launched, task_ports, task_results>>

\* The inputs of a run: party counts around the valid range, points drawn
\* from MaxCase + 1 families, with or without a repeated x coordinate; the
\* pool is full, or all but MaxFree of its ports are held by others.
XOf(c, m, q) == (c + (1 + (c % 2)) * m) % q

PointsOf(n, c, dup, q) ==
    [m \in 1..n |-> <<IF dup /\ m = 2 THEN XOf(c, 1, q) ELSE XOf(c, m, q),
                      Mix(c, m) % q>>]

Init ==
    /\ p \in OrchPrimes
    /\ seed \in 0..MaxSeed
    /\ draws = 0
    /\ available_ports \in {FullPool, MinPort..(MinPort + MaxFree - 1)}
    /\ initial_ports = available_ports
    /\ proto = "orch"
    /\ pc = "idle"
    /\ x = [q \in Party |-> 0]
    /\ x_star \in XVals(p)
    /\ ports = [q \in Party |-> 0]
    /\ running = {}
    /\ loc = NoLocals
    /\ outbox = {}
    /\ inbox = [q \in Party |-> <<>>]
    /\ vals = NoVals
    /\ result = None
    /\ lost = 0
    /\ short = FALSE
    /\ sentAfterShort = FALSE
    /\ send_fails = 0
    /\ tele = NoTelemetry
    /\ exhausted = FALSE
    /\ startFailed = FALSE
    /\ opc = "validate"
    /\ \E n \in (MIN_PARTIES - 1)..(MAX_PARTIES + 1), c \in 0..MaxCase,
          dup \in BOOLEAN : points = PointsOf(n, c, dup, p)
    /\ triples = <<>>
    /\ computation_tasks = <<>>
    /\ launched = 0
    /\ task_ports = <<>>
    /\ task_results = <<>>
    /\ y_star = None
    /\ outcome = "none"
    /\ UnitIdle

Next ==
    \/ Validate
    \/ Plan
    \/ Launch
    \/ Settle
    \/ Aggregate

Spec == Init /\ [][Next]_vars

(***************************************************************************)
(* Every coroutine of the module: a run of the orchestrator or of one      *)
(* sub-protocol on its own.                                                *)
(***************************************************************************)
InitAll == Init \/ InitSubAny

NextAll ==
    \/ Validate
    \/ Plan
    \/ Launch
    \/ Settle
    \/ Aggregate
    \/ AcquirePorts
    \/ StartEndpoints
    \/ RoundA_Send3
    \/ RecvA_SendB3
    \/ RecvB3
    \/ CheckB_SendC3
    \/ RecvC3
    \/ Finish3
    \/ Round1_Send4
    \/ Recv1_4
    \/ Check1_Send2_4
    \/ Recv2_4
    \/ Check2_4
    \/ RecvJKL_SendDelta4
    \/ RecvD_4
    \/ CheckD_SendN4
    \/ RecvN_4
    \/ Finish4
    \/ Cleanup

SpecAll == InitAll /\ [][NextAll]_vars

(***************************************************************************)
(* The library functions called on their own: mod_inverse on any integer   *)
(* argument and any modulus the group was built with, the two sharing      *)
(* primitives on a prime modulus with every outcome of their draws.        *)
(***************************************************************************)
SubIdle ==
    /\ pc = "idle"
    /\ x = [q \in Party |-> 0]
    /\ x_star = 0
    /\ ports = [q \in Party |-> 0]
    /\ running = {}
    /\ loc = NoLocals
    /\ outbox = {}
    /\ inbox = [q \in Party |-> <<>>]
    /\ vals = NoVals
    /\ result = None
    /\ lost = 0
    /\ short = FALSE
    /\ sentAfterShort = FALSE
    /\ send_fails = 0
    /\ tele = NoTelemetry
    /\ exhausted = FALSE
    /\ startFailed = FALSE

OrchIdle ==
    /\ opc = "idle"
    /\ points = <<>>
    /\ triples = <<>>
    /\ computation_tasks = <<>>
    /\ launched = 0
    /\ task_ports = <<>>
    /\ task_results = <<>>
    /\ y_star = None
    /\ outcome = "none"

InitUtil ==
    /\ p \in UtilModuli
    /\ seed = 0
    /\ draws = 0
    /\ available_ports = FullPool
    /\ initial_ports = FullPool
    /\ proto = "util"
    /\ SubIdle
    /\ OrchIdle
    /\ UnitIdle

\* group.mod_inverse(a)
CallModInverse ==
    /\ proto = "util" /\ call = NoCall
    /\ \E a \in (0 - MaxArg)..(p + MaxArg) :
        /\ call' = [fn |-> "mod_inverse", a |-> a]
        /\ ret' = mod_inverse(a, p)
    /\ UNCHANGED <<envVars, subVars, orchVars, auxVars, epVars>>

\* mini_one_share(group, size): size - 1 draws from 1..p-1
CallOneShare ==
    /\ proto = "util" /\ call = NoCall /\ p \in UtilPrimes
    /\ \E size \in 2..MaxShareSize :
       \E shares \in [1..(size - 1) -> 1..(p - 1)] :
        /\ call' = [fn |-> "mini_one_share", size |-> size, drawn |-> shares]
        /\ ret' = one_share_last(shares, p)
    /\ UNCHANGED <<envVars, subVars, orchVars, auxVars, epVars>>

\* mini_zero_share(group, size): size - 1 draws from 0..p-1
CallZeroShare ==
    /\ proto = "util" /\ call = NoCall /\ p \in UtilPrimes
    /\ \E size \in 2..MaxShareSize :
       \E shares \in [1..(size - 1) -> 0..(p - 1)] :
        /\ call' = [fn |-> "mini_zero_share", size |-> size, drawn |-> shares]
        /\ ret' = zero_share_last(shares, p)
    /\ UNCHANGED <<envVars, subVars, orchVars, auxVars, epVars>>

NextUtil ==
    \/ CallModInverse
    \/ CallOneShare
    \/ CallZeroShare

SpecUtil == InitUtil /\ [][NextUtil]_vars

(***************************************************************************)
(* One AsyncSocketCommunication endpoint called on its own by a coroutine  *)
(* that makes one call after the other, while its peers connect and write  *)
(* lines to it.  async_socket_communication.py 13-435.                     *)
(***************************************************************************)
Peer == "127.0.0.1:6101"    \* the conn_key of the send_data target

LineVals == {3, 12}     \* the integers the peers write

InitEndpoint ==
    /\ p = 2               \* the endpoint does no arithmetic
    /\ seed = 0
    /\ draws = 0
    /\ available_ports = FullPool
    /\ initial_ports = FullPool
    /\ proto = "endpoint"
    /\ SubIdle
    /\ OrchIdle
    /\ call = NoCall /\ ret = None
    /\ EpIdle
    /\ PoolIdle
    /\ SchedIdle
    /\ ShutIdle
    /\ ConnIdle
    /\ StatIdle
    /\ LaterIdle

EpCaller == proto = "endpoint" /\ epc = "idle" /\ calls < MaxCalls

\* 54-75: start(); the listener is up
EpStart ==
    /\ EpCaller /\ server = "none"
    /\ server' = "listening"
    /\ is_running' = TRUE
    /\ call' = [fn |-> "start"]
    /\ ret' = None
    /\ calls' = calls + 1
    /\ UNCHANGED <<envVars, subVars, orchVars, auxVars, received_data, data_available,
                   connections, connection_locks, handlers, epc, expired, recv_res,
                   attempt, wire, tries, closes>>

\* 77-89: a peer connects; handle_client enters its loop and blocks in
\* readline
EpAccept ==
    /\ proto = "endpoint" /\ server = "listening" /\ handlers < MaxPeers
    /\ handlers' = handlers + 1
    /\ UNCHANGED <<envVars, subVars, orchVars, auxVars, utilVars, received_data,
                   data_available, is_running, server, connections,
                   connection_locks, epc, expired, recv_res, attempt, wire, tries,
                   closes, calls>>

\* Faulty variant of set_on_append: the event is set only for the first
\* line of an empty inbox.
set_on_first_line(box, ev) == ev \/ box = <<>>

\* 104-107: the event after the append to inbox box: set, whatever it was
set_on_append(box, ev) == TRUE

\* 85-110: a blocked handle_client reads a line, appends it and sets the
\* event; the loop condition is_running is tested only afterwards
EpArrive ==
    /\ proto = "endpoint" /\ handlers > 0
    /\ Len(received_data) < MaxInbox
    /\ \E v \in LineVals : received_data' = Append(received_data, str_int(v))
    /\ data_available' = set_on_append(received_data, data_available)
    /\ handlers' = IF is_running THEN handlers ELSE handlers - 1
    /\ UNCHANGED <<envVars, subVars, orchVars, auxVars, utilVars, is_running, server,
                   connections, connection_locks, epc, expired, recv_res, attempt, wire,
                   tries, closes, calls>>

\* 239-245: recv_values(expected_count, wait_sec) is called
RecvCall ==
    /\ EpCaller
    /\ \E k \in 0..MaxExpected : call' = [fn |-> "recv_values", expected_count |-> k,
                     rounds |-> recv_rounds]
    /\ ret' = None
    /\ recv_res' = <<>>
    /\ expired' = FALSE
    /\ epc' = "r_check"
    /\ calls' = calls + 1
    /\ UNCHANGED <<envVars, subVars, orchVars, auxVars, received_data, data_available,
                   is_running, server, connections, connection_locks, handlers,
                   attempt, wire, tries, closes>>

\* 218, 295, 341: self.send_rounds += 1, self.recv_rounds += 1
count_round(n) == n + 1

\* Faulty variant of take: the newest entries are taken.
take_newest(box, n) ==
    [res |-> [m \in 1..n |-> parse_int(box[Len(box) - n + m])],
     rest |-> SubSeq(box, 1, Len(box) - n)]

\* 260-292, 307-338: n times received_data.pop(0), each converted by int()
take(box, n) ==
    [res |-> [m \in 1..n |-> parse_int(box[m])],
     rest |-> SubSeq(box, n + 1, Len(box))]

\* Faulty variant of timed_out: the deadline is not looked at.
timed_out_never(late) == FALSE

\* 302-303: current_time > deadline
timed_out(late) == late

\* 247-350: one pass of the loop up to the wait: the event is cleared, then
\* expected_count entries are returned when they are there, everything
\* there is returned when the deadline has passed
RecvCheck ==
    /\ proto = "endpoint" /\ epc = "r_check"
    /\ LET available == Len(received_data)
           k == call.expected_count
       IN  IF available >= k
           THEN /\ recv_res' = take(received_data, k).res
                /\ received_data' = take(received_data, k).rest
                /\ data_available' = (take(received_data, k).rest # <<>>)
                /\ recv_rounds' = count_round(recv_rounds)
                /\ epc' = "idle"
           ELSE IF timed_out(expired)
           THEN /\ recv_res' = take(received_data, available).res
                /\ received_data' = take(received_data, available).rest
                /\ data_available' = FALSE
                /\ recv_rounds' = count_round(recv_rounds)
                /\ epc' = "idle"
           ELSE /\ data_available' = FALSE
                /\ epc' = "r_wait"
                /\ UNCHANGED <<recv_res, received_data, recv_rounds>>
    /\ UNCHANGED <<envVars, subVars, orchVars, epRest, send_rounds, utilVars,
                   is_running, server, connections, connection_locks, handlers,
                   expired, attempt, wire, tries, closes, calls>>

\* 356-358: the event was set; it is cleared and the loop goes round
RecvWake ==
    /\ proto = "endpoint" /\ epc = "r_wait" /\ data_available
    /\ data_available' = FALSE
    /\ epc' = "r_check"
    /\ UNCHANGED <<envVars, subVars, orchVars, auxVars, utilVars, received_data,
                   is_running, server, connections, connection_locks, handlers,
                   expired, recv_res, attempt, wire, tries, closes, calls>>

\* 359-361: wait_for ran out of the remaining time
RecvTimeout ==
    /\ proto = "endpoint" /\ epc = "r_wait" /\ expired
    /\ epc' = "r_check"
    /\ UNCHANGED <<envVars, subVars, orchVars, auxVars, utilVars, received_data,
                   data_available, is_running, server, connections,
                   connection_locks, handlers, expired, recv_res, attempt, wire, tries,
                   closes, calls>>

\* the event loop's clock passes the deadline of the running recv_values
DeadlinePasses ==
    /\ proto = "endpoint" /\ epc \in {"r_check", "r_wait"} /\ ~expired
    /\ expired' = TRUE
    /\ UNCHANGED <<envVars, subVars, orchVars, auxVars, utilVars, received_data,
                   data_available, is_running, server, connections,
                   connection_locks, handlers, epc, recv_res, attempt, wire,
                   tries, closes, calls>>

\* 168-191: send_data(target_ip, target_port, data) is called
SendCall ==
    /\ EpCaller
    /\ \E v \in LineVals :
         call' = [fn |-> "send_data", data |-> str_int(v), before |-> Len(wire),
                  rounds |-> send_rounds]
    /\ ret' = Pending
    /\ attempt' = 0
    /\ tries' = 0
    /\ epc' = "s_attempt"
    /\ calls' = calls + 1
    /\ UNCHANGED <<envVars, subVars, orchVars, auxVars, received_data, data_available,
                   is_running, server, connections, connection_locks, handlers,
                   expired, recv_res, wire, closes>>

\* 189-190: the bytes of data + "\n"
data_len(data) == Len(data) + 1

\* 193-237: one pass of the retry loop and the back-off sleep.  The
\* connection is opened when none is cached; opening it, or the write and
\* drain, may raise: the cached writer is dropped and attempt incremented.
SendAttempt ==
    /\ proto = "endpoint" /\ epc = "s_attempt"
    /\ tries' = tries + 1
    /\ connection_locks' = IF Peer \in connections THEN connection_locks
                           ELSE connection_locks \cup {Peer}
    /\ \E how \in {"sent", "connect raises", "write raises"} :
        /\ how = "connect raises" => Peer \notin connections
        /\ IF how = "sent"
           THEN /\ connections' = connections \cup {Peer}
                /\ wire' = Append(wire, call.data)
                /\ send_rounds' = count_round(send_rounds)
                /\ ret' = data_len(call.data)
                /\ epc' = "idle"
                /\ UNCHANGED attempt
           ELSE /\ connections' = connections \ {Peer}
                /\ attempt' = attempt + 1
                /\ IF may_retry(attempt + 1)
                   THEN UNCHANGED <<ret, epc>>
                   ELSE ret' = 0 /\ epc' = "idle"
                /\ UNCHANGED <<wire, send_rounds>>
    /\ UNCHANGED <<envVars, subVars, orchVars, epRest, recv_rounds, call, received_data,
                   data_available, is_running, server, handlers, expired, recv_res,
                   closes, calls>>

\* Faulty variant of close_clears: the inbox is left as it is.
close_keeps_inbox(box) == box

\* 433: self.received_data.clear()
close_clears(box) == <<>>

\* 431-435: the tail of close(): the caches and the inbox are emptied
CloseReturn ==
    /\ connections' = {}
    /\ connection_locks' = {}
    /\ received_data' = close_clears(received_data)
    /\ closes' = closes + 1
    /\ ret' = None
    /\ epc' = "idle"

\* 411-428: the cached writers are closed, each for at most 50 ms
CloseWriters ==
    IF connections # {}
    THEN /\ epc' = "c_conns"
         /\ UNCHANGED <<connections, connection_locks, received_data, closes, ret>>
    ELSE CloseReturn

\* 373-400: close() is called: the endpoint stops running, the event is
\* set, the listener is closed and the server task cancelled
CloseCall ==
    /\ EpCaller
    /\ call' = [fn |-> "close"]
    /\ calls' = calls + 1
    /\ is_running' = FALSE
    /\ data_available' = TRUE
    /\ IF server # "none"
       THEN /\ server' = "closed"
            /\ epc' = "c_servers"
            /\ ret' = Pending
            /\ UNCHANGED <<connections, connection_locks, received_data, closes>>
       ELSE /\ UNCHANGED server
            /\ IF connections # {}
               THEN /\ epc' = "c_conns"
                    /\ ret' = Pending
                    /\ UNCHANGED <<connections, connection_locks,
                                   received_data, closes>>
               ELSE CloseReturn
    /\ UNCHANGED <<envVars, subVars, orchVars, auxVars, handlers, expired, recv_res, attempt,
                   wire, tries>>

\* asyncio.gather(*tasks, return_exceptions=flag): what the await raises
gather_raises(outcomes, return_exceptions) ==
    IF return_exceptions \/ \A m \in 1..Len(outcomes) : outcomes[m] = "done"
    THEN "nothing"
    ELSE outcomes[CHOOSE m \in 1..Len(outcomes) :
                    /\ outcomes[m] # "done"
                    /\ \A n \in 1..(m - 1) : outcomes[n] = "done"]

\* 398-408: the two server tasks have settled: wait_closed within 50 ms or
\* not, and the cancelled server task; only an Exception is caught at 406
CloseServers ==
    /\ proto = "endpoint" /\ epc = "c_servers"
    /\ \E closed_in_time \in BOOLEAN :
         LET outcomes == <<IF closed_in_time THEN "done" ELSE "TimeoutError",
                           "CancelledError">>
         IN  IF gather_raises(outcomes, TRUE) = "CancelledError"
             THEN /\ ret' = Raised
                  /\ epc' = "idle"
                  /\ UNCHANGED <<connections, connection_locks, received_data,
                                 closes>>
             ELSE CloseWriters
    /\ UNCHANGED <<envVars, subVars, orchVars, auxVars, call, data_available,
                   is_running, server, handlers, expired, recv_res, attempt, wire, tries,
                   calls>>

\* 428-435: the writers have been closed; the caches and the inbox are
\* emptied and close() returns
CloseConns ==
    /\ proto = "endpoint" /\ epc = "c_conns"
    /\ CloseReturn
    /\ UNCHANGED <<envVars, subVars, orchVars, auxVars, call, data_available,
                   is_running, server, handlers, expired, recv_res, attempt, wire, tries,
                   calls>>

NextEndpoint ==
    \/ EpStart
    \/ EpAccept
    \/ EpArrive
    \/ RecvCall
    \/ RecvCheck
    \/ RecvWake
    \/ RecvTimeout
    \/ DeadlinePasses
    \/ SendCall
    \/ SendAttempt
    \/ CloseCall
    \/ CloseServers
    \/ CloseConns

SpecEndpoint == InitEndpoint /\ [][NextEndpoint]_vars

(***************************************************************************)
(* Reference values, defined without the code's arithmetic.                *)
(***************************************************************************)
FieldInv(a, q) == CHOOSE b \in 1..(q - 1) : (a * b) % q = 1

AllDelivered == ~exhausted /\ ~startFailed /\ lost = 0

Basis3 ==
    (((x_star - x["j"]) * (x_star - x["k"])) *
     FieldInv(((x["i"] - x["j"]) * (x["i"] - x["k"])) % p, p)) % p

Den4 == ((x["i"] - x["j"]) * (x["i"] - x["k"]) * (x["i"] - x["l"])) % p

Num4 == ((x_star - x["j"]) * (x_star - x["k"]) * (x_star - x["l"])) % p

Basis4 == (Num4 * FieldInv(Den4, p)) % p

InRange == MIN_PARTIES <= party_num /\ party_num <= MAX_PARTIES

DistinctX == \A a, b \in 1..party_num : a # b => x_of(a) # x_of(b)

\* the Lagrange basis polynomial of point i at x*, over the points 1..k
RECURSIVE LagrangeBasis(_, _)
LagrangeBasis(i, k) ==
    IF k = 0 THEN 1
    ELSE IF k = i THEN LagrangeBasis(i, k - 1)
    ELSE (LagrangeBasis(i, k - 1) * (x_star - x_of(k))
          * FieldInv((x_of(i) - x_of(k)) % p, p)) % p

RECURSIVE InterpolatedUpTo(_)
InterpolatedUpTo(k) ==
    IF k = 0 THEN 0
    ELSE (InterpolatedUpTo(k - 1) + y_of(k) * LagrangeBasis(k, party_num)) % p

\* the value at x* of the polynomial of degree < party_num through the points
Interpolated == InterpolatedUpTo(party_num)

SomeCommitteeFailed == \E k \in 1..Len(task_results) : task_results[k] = None

(***************************************************************************)
(* Properties.                                                             *)
(***************************************************************************)
OrchDone == proto = "orch" /\ opc = "done"

\* C1: for every party count in [MIN_PARTIES, MAX_PARTIES], pairwise
\* distinct x coordinates, the full default pool and no short read, the
\* orchestrator returns the value at x* of the polynomial through the points.
C1_SecureInterpolation ==
    (OrchDone /\ InRange /\ DistinctX /\ initial_ports = FullPool /\ ~short)
    => (outcome = "value" /\ y_star = Interpolated)

\* C2: when some committee returned no result, the value the orchestrator
\* returns is still the interpolated value (the plaintext fallback).
C2_FallbackStillCorrect ==
    (OrchDone /\ InRange /\ DistinctX /\ SomeCommitteeFailed)
    => (outcome = "value" /\ y_star = Interpolated)

\* C3: when two points share an x coordinate the orchestrator raises and
\* returns no value.
C3_DuplicateXRaises ==
    (OrchDone /\ InRange /\ ~DistinctX)
    => (outcome = "ValueError" /\ y_star = None)

\* C4: when len(points) is outside [MIN_PARTIES, MAX_PARTIES] the
\* orchestrator raises ValueError at once: no committee is planned, no task
\* created or launched, no port taken, no random value drawn, no value
\* returned.
C4_ArgumentError ==
    (proto = "orch" /\ ~InRange /\ opc # "validate")
    => /\ opc = "done"
       /\ outcome = "ValueError"
       /\ y_star = None
       /\ triples = <<>>
       /\ computation_tasks = <<>>
       /\ launched = 0
       /\ available_ports = initial_ports
       /\ draws = 0

C4_Witness ==
    OrchDone /\ party_num = MAX_PARTIES + 1 /\ outcome = "ValueError"

\* C5: when the orchestrator, or a sub-protocol run on its own, has
\* returned, the free ports of the pool are those that were free when it
\* began, whatever path it took.
C5_PortConservation ==
    (OrchDone \/ (proto \in {"three", "four"} /\ pc = "done"))
    => available_ports = initial_ports

C5_Witness ==
    OrchDone /\ exhausted /\ short /\ initial_ports = FullPool
             /\ available_ports = FullPool

\* C6: when a get_port of some committee found the pool empty, the
\* orchestrator does not return a value.
C6_ExhaustionFatal ==
    (OrchDone /\ exhausted) => (outcome # "value" /\ y_star = None)

\* C7: three_party_compute, with every message of every round delivered and
\* x_i different from x_j and x_k, returns
\* (x*-x_j)(x*-x_k) * ((x_i-x_j)(x_i-x_k))^-1 mod p, whatever the shares
\* drawn and the arrival order.
C7_ThreePartyValue ==
    (proto = "three" /\ pc = "done" /\ AllDelivered
        /\ x["i"] # x["j"] /\ x["i"] # x["k"])
    => result = Basis3

C7_Witness ==
    proto = "three" /\ pc = "done" /\ AllDelivered /\ x["j"] = 0
        /\ x["i"] # x["j"] /\ x["i"] # x["k"] /\ result = Basis3 /\ result > 1

\* C8: four_party_compute, with every message of every round delivered and
\* x_i different from x_j, x_k and x_l, computes the denominator
\* (x_i-x_j)(x_i-x_k)(x_i-x_l) and the numerator (x*-x_j)(x*-x_k)(x*-x_l)
\* and returns numerator * denominator^-1 mod p.
C8_FourPartyValue ==
    (proto = "four" /\ AllDelivered
        /\ x["i"] # x["j"] /\ x["i"] # x["k"] /\ x["i"] # x["l"])
    => /\ pc \in {"N_recv", "N_check", "finish"} => loc.denominator = Den4
       /\ pc = "finish" => (loc.numerator = Num4 /\ loc.final_res = Basis4)
       /\ pc = "done" => result = Basis4

C8_Witness ==
    proto = "four" /\ pc = "done" /\ AllDelivered /\ x["l"] = 0
        /\ x["i"] # x["j"] /\ x["i"] # x["k"] /\ x["i"] # x["l"]
        /\ result = Basis4 /\ result > 1

\* C9: once a recv_values of either sub-protocol has returned fewer values
\* than its round needs, no send_value is issued any more and no result is
\* computed; when the sub-protocol has returned, it returned None, all its
\* endpoints are closed and the pool is as it was.
C9_ShortRecvAborts ==
    (proto \in {"three", "four"} /\ short)
    => /\ ~sentAfterShort
       /\ pc # "finish"
       /\ pc = "done" => (result = None /\ running = {}
                            /\ available_ports = initial_ports)

C9_Witness ==
    proto = "four" /\ pc = "done" /\ short /\ result = None /\ running = {}
        /\ initial_ports = FullPool

\* the non-owner members of owner i's committees, in list order
RECURSIVE others_of(_, _)
others_of(trs, i) ==
    IF trs = <<>> THEN <<>>
    ELSE (IF Head(trs)[1] = i THEN Tail(Head(trs)) ELSE <<>>)
         \o others_of(Tail(trs), i)

NoRepeats(s) == \A a, b \in 1..Len(s) : a # b => s[a] # s[b]

\* C10: for every party count in [MIN_PARTIES, MAX_PARTIES] and every owner
\* i, the non-owner members of i's committees are the parties other than i,
\* each exactly once, and the members of every committee are pairwise
\* distinct.
C10_CommitteeCoverage ==
    (proto = "orch" /\ InRange /\ opc \notin {"validate", "plan"})
    => /\ \A i \in 1..party_num :
            LET s == others_of(triples, i)
            IN  /\ NoRepeats(s)
                /\ {s[a] : a \in 1..Len(s)} = (1..party_num) \ {i}
       /\ \A k \in 1..Len(triples) : NoRepeats(triples[k])

C10_Witness ==
    proto = "orch" /\ opc = "launch" /\ party_num = MAX_PARTIES - 1
        /\ \E k \in 1..Len(triples) : Len(triples[k]) = 4

\* the positions of owner i's committees in the list trs
owned(trs, i) == {k \in 1..Len(trs) : trs[k][1] = i}

Planned == proto = "orch" /\ InRange /\ opc \notin {"validate", "plan"}

\* C11 as stated: for every party count in [MIN_PARTIES, MAX_PARTIES], odd
\* or even, every party owns exactly ceil((n-1)/2) of the committees
\* generate_triples returns.
C11_CeilPerOwner ==
    Planned => \A i \in 1..party_num :
                  Cardinality(owned(triples, i)) = party_num \div 2

\* C11 amended: for every party count in [MIN_PARTIES, MAX_PARTIES] every
\* party owns exactly floor((n-1)/2) of the committees generate_triples
\* returns, which is ceil((n-1)/2) when n is odd and one less when n is even.
C11_FloorPerOwner ==
    Planned => \A i \in 1..party_num :
                  Cardinality(owned(triples, i)) = (party_num - 1) \div 2

C11_Witness ==
    Planned /\ party_num = MAX_PARTIES - 1
        /\ Cardinality(owned(triples, 2)) = 3
        /\ Cardinality(owned(triples, 2)) # party_num \div 2

\* C12: for an odd party count every committee is a 3-tuple; for an even
\* one the committees of each owner are floor((n-1)/2) - 1 three-tuples
\* followed by exactly one 4-tuple, the last committee of that owner; and
\* four_party_compute is dispatched only for an even party count, exactly
\* once per owner, every other task being a three_party_compute on a
\* 3-tuple.
C12_PlannerShape ==
    Planned =>
       /\ party_num % 2 = 1 =>
             /\ \A k \in 1..Len(triples) : Len(triples[k]) = 3
             /\ \A k \in 1..Len(computation_tasks) :
                    ~is_four(computation_tasks[k])
       /\ party_num % 2 = 0 =>
             \A i \in 1..party_num :
               LET mine == owned(triples, i)
                   last == CHOOSE k \in mine : \A m \in mine : m <= k
               IN  /\ mine # {}
                   /\ Len(triples[last]) = 4
                   /\ \A k \in mine \ {last} : Len(triples[k]) = 3
                   /\ Cardinality(mine \ {last}) = ((party_num - 1) \div 2) - 1
                   /\ Cardinality({k \in owned(computation_tasks, i) :
                                      is_four(computation_tasks[k])}) = 1
       /\ Len(computation_tasks) = Len(triples)
       /\ \A k \in 1..Len(computation_tasks) :
              /\ Len(computation_tasks[k]) \in {3, 4}
              /\ is_four(computation_tasks[k]) <=> Len(computation_tasks[k]) = 4

C12_Witness ==
    Planned /\ party_num = 6 /\ Len(triples) = 12
        /\ Len(triples[1]) = 3 /\ Len(triples[2]) = 4
        /\ is_four(computation_tasks[2])

RECURSIVE RefProduct(_)
RefProduct(s) == IF s = <<>> THEN 1 ELSE Head(s) * RefProduct(Tail(s))

RECURSIVE RefSum(_)
RefSum(s) == IF s = <<>> THEN 0 ELSE Head(s) + RefSum(Tail(s))

Returned(fn) == proto = "util" /\ call.fn = fn

\* C13: for every size k >= 2 and every outcome of the draws,
\* mini_one_share returns k values, each in 1..p-1, whose product is 1
\* modulo p, and mini_zero_share returns k values, each in 0..p-1, whose
\* sum is 0 modulo p.
C13_SharingLaws ==
    /\ Returned("mini_one_share") =>
          /\ Len(ret) = call.size
          /\ SubSeq(ret, 1, call.size - 1) = call.drawn
          /\ \A m \in 1..Len(ret) : ret[m] \in 1..(p - 1)
          /\ RefProduct(ret) % p = 1
    /\ Returned("mini_zero_share") =>
          /\ Len(ret) = call.size
          /\ SubSeq(ret, 1, call.size - 1) = call.drawn
          /\ \A m \in 1..Len(ret) : ret[m] \in 0..(p - 1)
          /\ RefSum(ret) % p = 0

C13_Witness ==
    Returned("mini_one_share") /\ p = 7 /\ call.size = 3
        /\ call.drawn = <<3, 4>> /\ ret = <<3, 4, 3>>

IsPrime(n) == n > 1 /\ \A d \in 2..(n - 1) : n % d # 0

\* C14: for a prime p and every a in 1..p-1, mod_inverse(a) returns a
\* value in 0..p-1 whose product with a is 1 modulo p.
C14_InverseLaw ==
    (Returned("mod_inverse") /\ IsPrime(p) /\ call.a \in 1..(p - 1))
    => (ret \in 0..(p - 1) /\ (call.a * ret) % p = 1)

C14_Witness ==
    Returned("mod_inverse") /\ p = 7 /\ call.a = 3 /\ ret = 5

\* the greatest common divisor of a and a positive n
RefGcd(a, n) ==
    CHOOSE d \in 1..n : /\ a % d = 0 /\ n % d = 0
                         /\ \A e \in (d + 1)..n : ~(a % e = 0 /\ n % e = 0)

\* C15: mod_inverse(a) raises, and returns no value, whenever gcd(a, p) is
\* not 1; in particular for a = 0.
C15_InverseDomainError ==
    (Returned("mod_inverse") /\ RefGcd(call.a, p) # 1) => ret = Raised

C15_Witness ==
    Returned("mod_inverse") /\ p = 5 /\ call.a = 0 /\ ret = Raised

\* a recv_values returns in this step
RecvReturns == proto = "endpoint" /\ epc = "r_check" /\ epc' = "idle"

\* C16: a recv_values(k) that finds at least k lines in the inbox returns
\* the k oldest, converted, in arrival order; otherwise it returns only
\* once the deadline has passed, with every line of the inbox, fewer than
\* k.  Either way the returned lines, and only they, leave the inbox and
\* the others stay in order.
C16_RecvContract ==
    [][RecvReturns =>
        LET box == received_data
            k == call.expected_count
            n == IF Len(box) >= k THEN k ELSE Len(box)
        IN  /\ Len(box) < k => expired
            /\ recv_res' = [m \in 1..n |-> parse_int(box[m])]
            /\ received_data' = SubSeq(box, n + 1, Len(box))]_vars

C16_Witness ==
    proto = "endpoint" /\ call.fn = "recv_values" /\ call.expected_count = 2
        /\ epc = "idle" /\ recv_res = <<3, 12>> /\ received_data = <<str_int(3)>>
        /\ ~expired

\* C17: send_data makes at most four attempts; when it has returned, it
\* returned 0 exactly when all four attempts failed and nothing reached the
\* peer, and otherwise the length of the payload plus one, the line having
\* reached the peer once, by the attempt it returned from.
C17_SendRetries ==
    (proto = "endpoint" /\ call.fn = "send_data")
    => /\ tries <= 4
       /\ epc = "idle" =>
            /\ ret = 0 <=> (tries = 4 /\ Len(wire) = call.before)
            /\ ret # 0 => /\ ret = Len(call.data) + 1
                          /\ wire = Append(SubSeq(wire, 1, call.before), call.data)
       /\ epc # "idle" => Len(wire) = call.before

C17_Witness ==
    proto = "endpoint" /\ call.fn = "send_data" /\ epc = "idle"
        /\ tries = 4 /\ ret = 3 /\ call.data = str_int(12)

\* a close() returns in this step
CloseReturns ==
    /\ proto = "endpoint" /\ call'.fn = "close" /\ epc' = "idle"
    /\ epc # "idle" \/ calls' # calls

\* C18: every close(), the second on an endpoint like the first, returns
\* without raising and leaves the endpoint not running, its listener not
\* listening, its connection cache, lock table and inbox empty.
C18_CloseIdempotent ==
    [][CloseReturns =>
        /\ ret' = None
        /\ ~is_running'
        /\ server' # "listening"
        /\ connections' = {}
        /\ connection_locks' = {}
        /\ received_data' = <<>>]_vars

C18_Witness ==
    proto = "endpoint" /\ call.fn = "close" /\ epc = "idle" /\ closes = 2
        /\ ret = None /\ server = "closed" /\ ~is_running
        /\ connections = {} /\ connection_locks = {} /\ received_data = <<>>

\* what the sub-protocol returns when no attempt of any send_data raises and
\* every message arrives: its arithmetic on the shares drawn after setup
NoDrop3 == three_party_compute(x["i"], x["j"], x["k"], x_star, p, seed, 3)

NoDrop4 ==
    four_party_compute(x["i"], x["j"], x["k"], x["l"], x_star, p, seed, 4)

PortsNeeded(k) == IF is_four(computation_tasks[k]) THEN 4 ELSE 3

\* what the gathered tasks from the k-th on return in the run in which no
\* attempt raises, free ports being left for them: None for a task whose
\* setup finds too few
RECURSIVE NoDropFrom(_, _, _)
NoDropFrom(k, free, acc) ==
    IF k > Len(computation_tasks) THEN acc
    ELSE IF free >= PortsNeeded(k)
         THEN NoDropFrom(k + 1, free - PortsNeeded(k),
                         Append(acc, committee_value(computation_tasks[k])))
         ELSE NoDropFrom(k + 1, free, Append(acc, None))

NoDropResults == NoDropFrom(1, Cardinality(initial_ports), <<>>)

\* the product of owner i's results among the first k, None left out
RECURSIVE NoDropProduct(_, _, _)
NoDropProduct(r, i, k) ==
    IF k = 0 THEN 1
    ELSE IF computation_tasks[k][1] = i /\ r[k] # None
         THEN (NoDropProduct(r, i, k - 1) * r[k]) % p
         ELSE NoDropProduct(r, i, k - 1)

RECURSIVE NoDropSum(_, _)
NoDropSum(r, i) ==
    IF i = 0 THEN 0
    ELSE (NoDropSum(r, i - 1)
          + ((NoDropProduct(r, i, Len(computation_tasks)) * y_of(i)) % p)) % p

NoOtherFault == lost = 0 /\ ~startFailed

C20_EveryExitCloses ==
    proto \in {"three", "four"}
    => /\ pc = "done" => (running = {} /\ available_ports = initial_ports)
       /\ \A q \in running : ports[q] \notin available_ports

(***************************************************************************)
(* The messages of three_party_compute for every outcome of its draws.     *)
(* A share list is what mini_one_share / mini_zero_share can return; the   *)
(* m-th value of each list is the one participant m works with: column m   *)
(* of share_mat, a_m of zero_sh and r_m of share_last.                     *)
(***************************************************************************)
ViewPrimes == {3}

OneShares(q) == {one_share_last(d, q) : d \in [1..2 -> 1..(q - 1)]}
ZeroShares(q) == {zero_share_last(d, q) : d \in [1..2 -> 0..(q - 1)]}

\* every outcome of the five sharing calls of one run
ShareDraws(q) ==
    [row1 : OneShares(q), row2 : OneShares(q), row3 : OneShares(q),
     zero_sh : ZeroShares(q), share_last : OneShares(q)]

\* the share values participant number m holds
own_shares(sh, m) ==
    <<sh.row1[m], sh.row2[m], sh.row3[m], sh.zero_sh[m], sh.share_last[m]>>

\* protocol.py 91-212: the ten messages in the order they are handed to
\* send_value, every message of every round delivered
three_party_messages(x_i, x_j, x_k, xs, q, sh) ==
    LET masked_ij == Wire((sh.row2[1] * x_i) % q)
        masked_ik == Wire((sh.row3[1] * x_i) % q)
        masked_ji == Wire((sh.row1[2] * x_j) % q)
        masked_jk == Wire((sh.row3[2] * x_j) % q)
        masked_ki == Wire((sh.row1[3] * x_k) % q)
        masked_kj == Wire((sh.row2[3] * x_k) % q)
        xixk == (masked_ij * sh.row2[2] * masked_kj) % q
        delta_j == Wire(delta3(sh.zero_sh[2], xixk, q))
        xixj == (masked_ik * masked_jk * sh.row3[3]) % q
        delta_k == Wire(delta3(sh.zero_sh[3], xixj, q))
        masked_j == Wire((sh.share_last[2] * ((xs - x_j) % q)) % q)
        masked_k == Wire((sh.share_last[3] * ((xs - x_k) % q)) % q)
    IN  << <<"i", "j", masked_ij>>, <<"i", "k", masked_ik>>,
           <<"j", "i", masked_ji>>, <<"j", "k", masked_jk>>,
           <<"k", "i", masked_ki>>, <<"k", "j", masked_kj>>,
           <<"j", "i", delta_j>>, <<"k", "i", delta_k>>,
           <<"j", "i", masked_j>>, <<"k", "i", masked_k>> >>

\* what participant who receives over the three rounds, in that order
RECURSIVE received_by(_, _)
received_by(who, msgs) ==
    IF msgs = <<>> THEN <<>>
    ELSE (IF Head(msgs)[2] = who THEN <<Head(msgs)[3]>> ELSE <<>>)
         \o received_by(who, Tail(msgs))

view3(who, xv, xs, q, sh) ==
    received_by(who, three_party_messages(xv["i"], xv["j"], xv["k"], xs, q, sh))

PartyNo(who) == CHOOSE m \in 1..3 : Parties3[m] = who

InitView ==
    /\ p \in ViewPrimes
    /\ seed = 0
    /\ draws = 0
    /\ available_ports = FullPool
    /\ initial_ports = FullPool
    /\ proto = "view"
    /\ pc = "idle"
    /\ x \in {f \in [Party -> XVals(p)] : f["l"] = 0}
    /\ x_star \in XVals(p)
    /\ ports = [q \in Party |-> 0]
    /\ running = {}
    /\ loc = NoLocals
    /\ outbox = {}
    /\ inbox = [q \in Party |-> <<>>]
    /\ vals = NoVals
    /\ result = None
    /\ lost = 0
    /\ short = FALSE
    /\ sentAfterShort = FALSE
    /\ send_fails = 0
    /\ tele = NoTelemetry
    /\ exhausted = FALSE
    /\ startFailed = FALSE
    /\ OrchIdle
    /\ UnitIdle

\* one run of the three rounds with some outcome of the draws, seen by one
\* of the participants
RunView ==
    /\ proto = "view" /\ call = NoCall
    /\ \E who \in {"i", "j", "k"}, sh \in ShareDraws(p) :
        /\ call' = [fn |-> "view", who |-> who,
                    own |-> own_shares(sh, PartyNo(who))]
        /\ ret' = view3(who, x, x_star, p, sh)
    /\ UNCHANGED <<envVars, subVars, orchVars, auxVars, epVars>>

NextView == RunView

SpecView == InitView /\ [][NextView]_vars

\* the views participant who can have with shares own, the inputs being xv
Views(who, own, xv, xs, q) ==
    {view3(who, xv, xs, q, sh) :
        sh \in {d \in ShareDraws(q) : own_shares(d, PartyNo(who)) = own}}

\* the inputs that differ from xv in the x of the other two participants only
OtherInputs(who, xv, q) ==
    {f \in [Party -> XVals(q)] : f["l"] = 0 /\ f[who] = xv[who]}

\* C21: in three_party_compute a participant's possible views -- the
\* messages it receives over the three rounds -- are the same set whatever
\* the x values of the other two participants, its own x and shares fixed.
C21_InputPrivacy ==
    (proto = "view" /\ call # NoCall)
    => \A xv \in OtherInputs(call.who, x, p) :
          Views(call.who, call.own, xv, x_star, p)
              = Views(call.who, call.own, x, x_star, p)

(***************************************************************************)
(* The PortManager called on its own by two coroutines that get and        *)
(* release ports in any order.  Neither method awaits inside its           *)
(* `async with self.port_lock`, so each call is one step.  A coroutine     *)
(* releases a port it holds, a port outside the range, or a port that is   *)
(* free already.                                                           *)
(***************************************************************************)
MaxGets == 3        \* get_port calls that return a port in one run

OutOfRange == {0, MinPort - 1, MaxPort + 1}

InitPool ==
    /\ p = 2               \* the pool does no arithmetic
    /\ seed \in 0..MaxSeed
    /\ draws = 0
    /\ available_ports \in PoolStates
    /\ initial_ports = available_ports
    /\ proto = "pool"
    /\ SubIdle
    /\ OrchIdle
    /\ UnitIdle

\* await port_manager.get_port()
PoolGet ==
    /\ proto = "pool" /\ draws < MaxGets
    /\ \E h \in Holder :
        LET port == get_port(available_ports, seed, draws)
        IN  /\ call' = [fn |-> "get_port", who |-> h, port |-> 0,
                        before |-> available_ports]
            /\ IF port = None
               THEN /\ ret' = Raised
                    /\ UNCHANGED <<available_ports, held, draws>>
               ELSE /\ ret' = port
                    /\ available_ports' = available_ports \ {port}
                    /\ held' = [held EXCEPT ![h] = @ \cup {port}]
                    /\ draws' = draws + 1
    /\ UNCHANGED <<p, seed, proto, initial_ports, subVars, orchVars, epVars,
                   poolRest>>

\* await port_manager.release_port(port)
PoolRelease ==
    /\ proto = "pool"
    /\ \E h \in Holder :
       \E port \in held[h] \cup OutOfRange
                     \cup (available_ports \cap {MinPort, MaxPort}) :
        /\ call' = [fn |-> "release_port", who |-> h, port |-> port,
                    before |-> available_ports]
        /\ ret' = None
        /\ available_ports' = release_port(available_ports, port)
        /\ held' = [held EXCEPT ![h] = @ \ {port}]
    /\ UNCHANGED <<p, seed, draws, proto, initial_ports, subVars, orchVars,
                   epVars, poolRest>>

NextPool ==
    \/ PoolGet
    \/ PoolRelease

SpecPool == InitPool /\ [][NextPool]_vars

Stmt(op, who, round) == [op |-> op, who |-> who, round |-> round]

\* Faulty variant of Program3: the receive tasks are created after the
\* gather of the round's sends.
Program3_late ==
    << Stmt("gather", "", 1),
       Stmt("create_task", "i", 1), Stmt("create_task", "j", 1),
       Stmt("create_task", "k", 1),
       Stmt("await", "i", 1), Stmt("await", "j", 1), Stmt("await", "k", 1),
       Stmt("check", "", 1),
       Stmt("gather", "", 2), Stmt("create_task", "i", 2),
       Stmt("await", "i", 2), Stmt("check", "", 2),
       Stmt("gather", "", 3), Stmt("create_task", "i", 3),
       Stmt("await", "i", 3), Stmt("check", "", 3) >>

\* protocol.py 113-217
Program3 ==
    << Stmt("create_task", "i", 1), Stmt("create_task", "j", 1),
       Stmt("create_task", "k", 1), Stmt("gather", "", 1),
       Stmt("await", "i", 1), Stmt("await", "j", 1), Stmt("await", "k", 1),
       Stmt("check", "", 1),
       Stmt("create_task", "i", 2), Stmt("gather", "", 2),
       Stmt("await", "i", 2), Stmt("check", "", 2),
       Stmt("create_task", "i", 3), Stmt("gather", "", 3),
       Stmt("await", "i", 3), Stmt("check", "", 3) >>

\* Faulty variant of Program4: every recv_values is a task created before
\* the gather of its round, as in three_party_compute.
Program4_armed ==
    << Stmt("create_task", "i", 1), Stmt("create_task", "j", 1),
       Stmt("create_task", "k", 1), Stmt("create_task", "l", 1),
       Stmt("gather", "", 1), Stmt("await", "i", 1), Stmt("check", "i", 1),
       Stmt("create_task", "i", 2), Stmt("gather", "", 2),
       Stmt("await", "i", 2), Stmt("check", "i", 2),
       Stmt("await", "j", 1), Stmt("await", "k", 1), Stmt("await", "l", 1),
       Stmt("check", "", 1),
       Stmt("create_task", "i", 3), Stmt("gather", "", 3),
       Stmt("await", "i", 3), Stmt("check", "", 3),
       Stmt("create_task", "i", 4), Stmt("gather", "", 4),
       Stmt("await", "i", 4), Stmt("check", "", 4) >>

\* protocol_extension.py 129-266.  P_i reads round 1, the second fan-in is
\* gathered and read, and only then P_j, P_k and P_l read round 1.
Program4 ==
    << Stmt("gather", "", 1), Stmt("recv", "i", 1), Stmt("check", "i", 1),
       Stmt("gather", "", 2), Stmt("recv", "i", 2), Stmt("check", "i", 2),
       Stmt("recv", "j", 1), Stmt("recv", "k", 1), Stmt("recv", "l", 1),
       Stmt("check", "", 1),
       Stmt("gather", "", 3), Stmt("recv", "i", 3), Stmt("check", "", 3),
       Stmt("gather", "", 4), Stmt("recv", "i", 4), Stmt("check", "", 4) >>

\* the send_value calls of round r, in the order gather is given them
Sends3(r) ==
    IF r = 1
    THEN << <<"i", "j">>, <<"i", "k">>, <<"j", "i">>, <<"j", "k">>,
            <<"k", "i">>, <<"k", "j">> >>
    ELSE << <<"j", "i">>, <<"k", "i">> >>

Sends4(r) ==
    IF r = 1
    THEN << <<"i", "j">>, <<"i", "k">>, <<"i", "l">>,
            <<"j", "i">>, <<"j", "k">>, <<"j", "l">>,
            <<"k", "i">>, <<"k", "j">>, <<"k", "l">>,
            <<"l", "i">>, <<"l", "j">>, <<"l", "k">> >>
    ELSE << <<"j", "i">>, <<"k", "i">>, <<"l", "i">> >>

Program == IF proto = "sched4" THEN Program4 ELSE Program3
Sends(r) == IF proto = "sched4" THEN Sends4(r) ELSE Sends3(r)
Rounds == 1..(IF proto = "sched4" THEN 4 ELSE 3)

RecvTask(q, r) == [kind |-> "recv", src |-> "", dst |-> q, round |-> r]
SendTask(a, b, r) == [kind |-> "send", src |-> a, dst |-> b, round |-> r]

SendTasks(r) ==
    [n \in 1..Len(Sends(r)) |-> SendTask(Sends(r)[n][1], Sends(r)[n][2], r)]
SendSet(r) == {SendTasks(r)[n] : n \in 1..Len(Sends(r))}

\* the participants that read the messages of round r
Receivers(r) == {t.dst : t \in SendSet(r)}

AllTasks ==
    UNION {SendSet(r) : r \in Rounds}
        \cup {RecvTask(q, r) : q \in Party, r \in Rounds}

\* how many messages of round r participant q is sent: its expected_count
expected(q, r) == Cardinality({t \in SendSet(r) : t.dst = q})

\* the messages of round r for q that have been written so far
issued_to(q, r) ==
    Cardinality({t \in SendSet(r) : t.dst = q /\ task_state[t] = "issued"})

InitSched ==
    /\ p = 2               \* the schedule does no arithmetic
    /\ seed = 0
    /\ draws = 0
    /\ available_ports = FullPool
    /\ initial_ports = FullPool
    /\ proto \in {"sched3", "sched4"}
    /\ SubIdle
    /\ OrchIdle
    /\ call = NoCall /\ ret = None
    /\ EpIdle
    /\ PoolIdle
    /\ ShutIdle
    /\ ConnIdle
    /\ StatIdle
    /\ LaterIdle
    /\ sched_at = 1
    /\ ready = <<>>
    /\ task_state = [t \in AllTasks |-> "none"]
    /\ written = [r \in Rounds |-> 0]
    /\ landed = [q \in Party |-> [r \in Rounds |-> 0]]

Scheduling == proto \in {"sched3", "sched4"}
AtStmt == Scheduling /\ sched_at \in 1..Len(Program)
stmt == Program[sched_at]

schedFrame == <<envVars, subVars, orchVars, utilVars, epVars, schedRest>>

\* async_socket_communication.py 262, 307: the inbox of q holds the
\* expected_count lines a recv_values of round r asks for
enough(q, r) == Len(boxes[q]) >= expected(q, r)

\* 262-292, 307-338: the recv_values of round r pops the oldest lines of
\* the inbox of q, expected_count of them or, at the deadline, all there are
RecvTakes(q, r) ==
    LET cnt == IF enough(q, r) THEN expected(q, r) ELSE Len(boxes[q])
    IN  /\ consumed' = [consumed EXCEPT ![q][r] = SubSeq(boxes[q], 1, cnt)]
        /\ boxes' = [boxes EXCEPT ![q] = SubSeq(@, cnt + 1, Len(@))]

\* Faulty variant of after_check: a short list does not end the run.
after_check_goes_on(short_seen) == sched_at + 1

\* protocol.py 140-143, 182-185, 216-219; protocol_extension.py 146-149,
\* 172-175, 196-199, 231-234, 265-268: return None after a short list
after_check(short_seen) ==
    IF short_seen THEN Len(Program) + 1 ELSE sched_at + 1

\* asyncio.create_task(P_q.recv_values(k, ...)): the task is queued
MainCreateTask ==
    /\ AtStmt /\ stmt.op = "create_task"
    /\ task_state' =
         [task_state EXCEPT ![RecvTask(stmt.who, stmt.round)] = "ready"]
    /\ ready' = Append(ready, RecvTask(stmt.who, stmt.round))
    /\ sched_at' = sched_at + 1
    /\ UNCHANGED <<schedFrame, written, landed, inboxVars>>

\* await asyncio.gather(send_value, ...): the sends are queued in argument
\* order and the coroutine waits for all of them
MainGather ==
    /\ AtStmt /\ stmt.op = "gather"
    /\ \A t \in SendSet(stmt.round) : task_state[t] = "none"
    /\ task_state' = [t \in AllTasks |->
                        IF t \in SendSet(stmt.round) THEN "ready"
                        ELSE task_state[t]]
    /\ ready' = ready \o SendTasks(stmt.round)
    /\ UNCHANGED <<schedFrame, sched_at, written, landed, inboxVars>>

\* the gather returns once every send_value has returned
MainGatherDone ==
    /\ AtStmt /\ stmt.op = "gather"
    /\ \A t \in SendSet(stmt.round) : task_state[t] = "issued"
    /\ written[stmt.round] = Len(Sends(stmt.round))
    /\ sched_at' = sched_at + 1
    /\ UNCHANGED <<schedFrame, ready, task_state, written, landed, inboxVars>>

\* vals = await P_q.recv_values(k, ...) called by the coroutine itself: it
\* returns at once when the inbox holds k lines, and waits otherwise
MainRecv ==
    /\ AtStmt /\ stmt.op = "recv"
    /\ task_state[RecvTask(stmt.who, stmt.round)] = "none"
    /\ IF enough(stmt.who, stmt.round)
       THEN /\ task_state' =
                 [task_state EXCEPT ![RecvTask(stmt.who, stmt.round)] = "returned"]
            /\ RecvTakes(stmt.who, stmt.round)
       ELSE /\ task_state' =
                 [task_state EXCEPT ![RecvTask(stmt.who, stmt.round)] = "armed"]
            /\ UNCHANGED inboxVars
    /\ UNCHANGED <<schedFrame, sched_at, ready, written, landed>>

\* the awaited recv_values has returned
MainAwaitDone ==
    /\ AtStmt /\ stmt.op \in {"await", "recv"}
    /\ task_state[RecvTask(stmt.who, stmt.round)] \in {"returned", "short"}
    /\ sched_at' = sched_at + 1
    /\ UNCHANGED <<schedFrame, ready, task_state, written, landed, inboxVars>>

\* the length check after the reads: a short list ends the sub-protocol
MainCheck ==
    /\ AtStmt /\ stmt.op = "check"
    /\ sched_at' =
         after_check(\E q \in Party, r \in Rounds :
                        task_state[RecvTask(q, r)] = "short")
    /\ UNCHANGED <<schedFrame, ready, task_state, written, landed, inboxVars>>

\* the coroutine is suspended in an await
MainWaits ==
    /\ AtStmt
    /\ \/ stmt.op = "gather"
            /\ \A t \in SendSet(stmt.round) : task_state[t] # "none"
       \/ stmt.op = "await"
            /\ task_state[RecvTask(stmt.who, stmt.round)] \in {"ready", "armed"}
       \/ stmt.op = "recv"
            /\ task_state[RecvTask(stmt.who, stmt.round)] = "armed"

\* the loop runs the task at the head of its queue up to its first await:
\* a recv_values looks at the inbox and waits, a send_value writes its line
LoopRun ==
    /\ Scheduling /\ MainWaits /\ ready # <<>>
    /\ LET t == Head(ready)
       IN  /\ task_state' =
                [task_state EXCEPT ![t] =
                   IF t.kind = "send" THEN "issued"
                   ELSE IF enough(t.dst, t.round)
                        THEN "returned" ELSE "armed"]
           /\ IF t.kind = "recv" /\ enough(t.dst, t.round)
              THEN RecvTakes(t.dst, t.round)
              ELSE UNCHANGED inboxVars
    /\ ready' = Tail(ready)
    /\ UNCHANGED <<schedFrame, sched_at, written, landed>>

\* one more send_value of round r has returned
SendReturns ==
    /\ Scheduling
    /\ \E r \in Rounds :
        /\ written[r] < Cardinality({t \in SendSet(r) : task_state[t] = "issued"})
        /\ written' = [written EXCEPT ![r] = @ + 1]
    /\ UNCHANGED <<schedFrame, sched_at, ready, task_state, landed, inboxVars>>

\* handle_client of q appends one more line of round r to the inbox
Arrives ==
    /\ Scheduling
    /\ \E q \in Party, r \in Rounds :
        /\ landed[q][r] < issued_to(q, r)
        /\ landed' = [landed EXCEPT ![q][r] = @ + 1]
        /\ boxes' = [boxes EXCEPT ![q] = Append(@, r)]
    /\ UNCHANGED <<schedFrame, sched_at, ready, task_state, written, consumed>>

\* a waiting recv_values finds its k lines and returns them
RecvFull ==
    /\ Scheduling
    /\ \E q \in Party, r \in Rounds :
        /\ task_state[RecvTask(q, r)] = "armed"
        /\ enough(q, r)
        /\ task_state' = [task_state EXCEPT ![RecvTask(q, r)] = "returned"]
        /\ RecvTakes(q, r)
    /\ UNCHANGED <<schedFrame, sched_at, ready, written, landed>>

\* a waiting recv_values reaches its deadline and returns what is there
RecvShort ==
    /\ Scheduling
    /\ \E q \in Party, r \in Rounds :
        /\ task_state[RecvTask(q, r)] = "armed"
        /\ ~enough(q, r)
        /\ task_state' = [task_state EXCEPT ![RecvTask(q, r)] = "short"]
        /\ RecvTakes(q, r)
    /\ UNCHANGED <<schedFrame, sched_at, ready, written, landed>>

NextSched ==
    \/ MainCreateTask
    \/ MainGather
    \/ MainGatherDone
    \/ MainRecv
    \/ MainAwaitDone
    \/ MainCheck
    \/ LoopRun
    \/ SendReturns
    \/ Arrives
    \/ RecvFull
    \/ RecvShort

SpecSched == InitSched /\ [][NextSched]_vars

Started(t) == task_state[t] \in {"armed", "returned", "short"}

\* C23: in every round of three_party_compute a send_value runs only once
\* every receiver of the round has started its recv_values; the sends of a
\* round are all handed to one gather, none waiting for another; and no
\* send of the next round exists before every recv_values of the round has
\* returned all its values.
C23_RecvArmedBeforeSend ==
    proto = "sched3"
    => \A r \in Rounds : \A t \in SendSet(r) :
          /\ task_state[t] = "issued"
             => \A q \in Receivers(r) : Started(RecvTask(q, r))
          /\ task_state[t] # "none"
             => /\ \A u \in SendSet(r) : task_state[u] # "none"
                /\ r > 1 => \A q \in Receivers(r - 1) :
                               task_state[RecvTask(q, r - 1)] = "returned"

C23_Witness ==
    /\ proto = "sched3"
    /\ \A t \in SendSet(3) : task_state[t] = "issued"
    /\ written[3] = 0
    /\ task_state[RecvTask("i", 3)] = "armed"

C25_GatherWaitsForAll ==
    proto = "orch"
    => /\ (\E k \in 1..Len(task_results) : task_results[k] = Pending)
          => (y_star = None /\ opc # "done")
       /\ (opc = "done" /\ outcome = "value")
          => /\ launched = Len(computation_tasks)
             /\ Len(task_results) = Len(computation_tasks)
             /\ \A k \in 1..Len(task_results) : task_results[k] # Pending

C25_Witness ==
    /\ proto = "orch" /\ opc = "done" /\ outcome = "value"
    /\ \E k, m \in 1..Len(task_results) :
          /\ k < m
          /\ task_results[k] = None
          /\ task_results[m] \notin {None, Pending}

(***************************************************************************)
(* The endpoint with the event loop's scheduling: a recv_values whose      *)
(* wait has been woken is resumed, and a resumed recv_values runs its next *)
(* pass of the loop.  Nothing is assumed about the clock.                  *)
(***************************************************************************)
SpecEndpointLive ==
    SpecEndpoint /\ WF_vars(RecvWake) /\ WF_vars(RecvCheck)

\* a recv_values waits on the event while the inbox holds what it asked for
WaitsWithEnough ==
    /\ proto = "endpoint" /\ epc = "r_wait"
    /\ Len(received_data) >= call.expected_count

\* C26: a recv_values that waits on the event while the inbox holds at
\* least expected_count lines has the event set, and it goes on to return
\* expected_count values; this does not depend on the deadline passing.
C26_NoMissedWakeup ==
    /\ [](WaitsWithEnough => data_available)
    /\ WaitsWithEnough
         ~> (epc = "idle" /\ call.fn = "recv_values"
               /\ Len(recv_res) = call.expected_count)

C26_Witness ==
    /\ WaitsWithEnough /\ ~expired
    /\ call.expected_count = 2
    /\ Len(received_data) > 2

(***************************************************************************)
(* The endpoint while a recv_values is running in one coroutine and        *)
(* another coroutine calls close(), as cleanup_resources does when the     *)
(* sub-protocol leaves a round whose receive tasks are still waiting.      *)
(***************************************************************************)
\* 373-400: close() up to its first await: the endpoint stops running, the
\* event is set, the listener is closed
ShutCall ==
    /\ proto = "endpoint" /\ closer.at = "idle" /\ server = "listening"
    /\ is_running' = FALSE
    /\ data_available' = TRUE
    /\ server' = "closed"
    /\ closer' = [at |-> "servers", recv |-> epc]
    /\ UNCHANGED <<envVars, subVars, orchVars, shutRest, utilVars,
                   received_data, connections, connection_locks, handlers, epc,
                   expired, recv_res, attempt, wire, tries, closes, calls>>

\* 398-435: the server tasks have settled; the caches and the inbox are
\* emptied and close() returns
ShutReturn ==
    /\ proto = "endpoint" /\ closer.at = "servers"
    /\ connections' = {}
    /\ connection_locks' = {}
    /\ received_data' = close_clears(received_data)
    /\ closes' = closes + 1
    /\ closer' = [closer EXCEPT !.at = "done"]
    /\ UNCHANGED <<envVars, subVars, orchVars, shutRest, utilVars,
                   data_available, is_running, server, handlers, epc, expired,
                   recv_res, attempt, wire, tries, calls>>

\* the sub-protocol calls no recv_values once it has begun its cleanup
ShutRecvCall == closer.at = "idle" /\ RecvCall

NextShutdown ==
    \/ EpStart
    \/ EpAccept
    \/ EpArrive
    \/ ShutRecvCall
    \/ RecvCheck
    \/ RecvWake
    \/ RecvTimeout
    \/ DeadlinePasses
    \/ ShutCall
    \/ ShutReturn

SpecShutdown == InitEndpoint /\ [][NextShutdown]_vars

\* the loop resumes a woken recv_values and lets it and close() run on;
\* nothing is assumed about the clock or about further lines
SpecShutdownLive ==
    /\ SpecShutdown
    /\ WF_vars(RecvWake) /\ WF_vars(RecvCheck) /\ WF_vars(RecvTimeout)
    /\ WF_vars(ShutReturn)

\* C27: a recv_values that is waiting for data when close() is called is
\* woken by the event close() sets and returns to its caller, without its
\* deadline having to pass.
C27_CloseWakesWaiter ==
    (proto = "endpoint" /\ epc = "r_wait" /\ closer.recv = "r_wait")
        ~> (epc = "idle")

\* ------------------------------------------------------------------
\* The outbound connection cache under concurrent send_data calls
\* (async_socket_communication.py 131-237).  In this specification a
\* cache entry is the pair <<conn_key, writer>> and a lock entry the pair
\* <<conn_key, lock>>: writers and locks are numbered as they are made.
\* ------------------------------------------------------------------

MaxOpens == 3       \* connections opened in one run
MaxConnSends == 3   \* send_data calls in one run

InitConn ==
    /\ p = 2               \* the cache does no arithmetic
    /\ seed = 0
    /\ draws = 0
    /\ available_ports = FullPool
    /\ initial_ports = FullPool
    /\ proto = "conn"
    /\ SubIdle
    /\ OrchIdle
    /\ UnitIdle

\* self.connections[conn_key], 0 when the key is absent
cached_writer == IF connections = {} THEN 0 ELSE (CHOOSE e \in connections : TRUE)[2]

\* self.connection_locks[conn_key] of a lock dictionary, 0 when absent
lock_of(locks) == IF locks = {} THEN 0 ELSE (CHOOSE e \in locks : TRUE)[2]

\* 139-142, 155: the key is cached and its writer is not closing
usable(w) == w # 0 /\ w \notin closing

\* the connections that were opened and are not closing
live_writers == (1..opened) \ closing

\* asyncio.Lock.acquire returns at once when the lock is free and no
\* coroutine is queued for it
lock_free(l) ==
    /\ l \notin locked
    /\ \A c \in Sender : ~(senders[c].at = "lock_wait" /\ senders[c].lock = l)

connFrame ==
    <<envVars, subVars, orchVars, utilVars, connRest, received_data,
      data_available, is_running, server, handlers, epc, expired, recv_res,
      attempt, wire, tries, closes>>

\* 168-193: send_data is called; attempt = 0
ConnSendCall(c) ==
    /\ proto = "conn" /\ senders[c].at = "idle" /\ calls < MaxConnSends
    /\ senders' = [senders EXCEPT ![c].at = "get", ![c].lock = 0,
                                  ![c].writer = 0, ![c].attempt = 0]
    /\ calls' = calls + 1
    /\ UNCHANGED <<connFrame, connections, connection_locks, opened, closing,
                   broken, lock_made, locked>>

\* 146-147: the lock of an evicted writer is deleted with it
evict_lock(locks) == {}

\* 136-153: get_connection up to its first suspension.  A usable cached
\* writer is returned; a closing one is evicted with its lock; the lock is
\* made when the key has none, and taken when it is free.
ConnGet(c) ==
    /\ proto = "conn" /\ senders[c].at = "get"
    /\ LET w == cached_writer
       IN  IF usable(w)
           THEN /\ senders' = [senders EXCEPT ![c].at = "write", ![c].writer = w]
                /\ UNCHANGED <<connections, connection_locks, lock_made, locked>>
           ELSE LET locks1 == IF w # 0 THEN evict_lock(connection_locks)
                              ELSE connection_locks
                    l == IF locks1 = {} THEN lock_made + 1 ELSE lock_of(locks1)
                IN  /\ connections' = {}
                    /\ connection_locks' = {<<Peer, l>>}
                    /\ lock_made' = IF locks1 = {} THEN lock_made + 1 ELSE lock_made
                    /\ IF locks1 = {} \/ lock_free(l)
                       THEN /\ locked' = locked \cup {l}
                            /\ senders' = [senders EXCEPT ![c].at = "opening",
                                                          ![c].lock = l]
                       ELSE /\ senders' = [senders EXCEPT ![c].at = "lock_wait",
                                                          ![c].lock = l]
                            /\ UNCHANGED locked
    /\ UNCHANGED <<connFrame, calls, opened, closing, broken>>

\* 155-156: the cache is looked at again once the lock is held
recheck(w) == usable(w)

\* 153-156: the lock a coroutine queued for is released to it
ConnLockAcquired(c) ==
    /\ proto = "conn" /\ senders[c].at = "lock_wait"
    /\ senders[c].lock \notin locked
    /\ IF recheck(cached_writer)
       THEN /\ senders' = [senders EXCEPT ![c].at = "write",
                                          ![c].writer = cached_writer]
            /\ UNCHANGED locked
       ELSE /\ senders' = [senders EXCEPT ![c].at = "opening"]
            /\ locked' = locked \cup {senders[c].lock}
    /\ UNCHANGED <<connFrame, calls, connections, connection_locks, opened,
                   closing, broken, lock_made>>

\* Faulty variant of drop_on_failure: the entry stays in the cache.
keep_on_failure(conns) == conns

\* 226-227: del self.connections[conn_key] when the key is cached
drop_on_failure(conns) == {}

\* 223-237: the except branch of send_data and the end of the loop;
\* fresh_after notes how many connections had been opened when the
\* attempt failed (history)
after_failure(c) ==
    [senders[c] EXCEPT !.at = IF may_retry(senders[c].attempt + 1) THEN "get"
                              ELSE "idle",
                       !.attempt = @ + 1,
                       !.writer = 0,
                       !.lock = 0,
                       !.fresh_after = opened]

\* 159-166: open_connection returns and the writer is cached, or it raises
\* and send_data's except branch runs; the lock is released either way
ConnOpened(c) ==
    /\ proto = "conn" /\ senders[c].at = "opening"
    /\ locked' = locked \ {senders[c].lock}
    /\ \E ok \in BOOLEAN :
        IF ok
        THEN /\ opened < MaxOpens
             /\ opened' = opened + 1
             /\ connections' = {<<Peer, opened + 1>>}
             /\ senders' = [senders EXCEPT ![c].at = "write",
                                           ![c].writer = opened + 1]
        ELSE /\ connections' = drop_on_failure(connections)
             /\ senders' = [senders EXCEPT ![c] = after_failure(c)]
             /\ UNCHANGED opened
    /\ UNCHANGED <<connFrame, calls, connection_locks, closing, broken, lock_made>>

\* 196-221, 223-237: the write and drain on the writer get_connection
\* returned.  They raise when the connection is lost, and then the
\* except branch runs.
ConnWrite(c) ==
    /\ proto = "conn" /\ senders[c].at = "write"
    /\ \E ok \in BOOLEAN :
        IF ok
        THEN /\ senders[c].writer \notin closing
             /\ senders' = [senders EXCEPT ![c].at = "idle", ![c].fresh_after = 0]
             /\ UNCHANGED <<connections, closing, broken>>
        ELSE /\ closing' = closing \cup {senders[c].writer}
             /\ broken' = broken \cup {senders[c].writer}
             /\ connections' = drop_on_failure(connections)
             /\ senders' = [senders EXCEPT ![c] = after_failure(c)]
    /\ UNCHANGED <<connFrame, calls, connection_locks, opened, lock_made, locked>>

\* the peer drops a connection: its writer is closing from now on
ConnLost ==
    /\ proto = "conn"
    /\ \E w \in live_writers : closing' = closing \cup {w}
    /\ UNCHANGED <<connFrame, calls, connections, connection_locks, senders,
                   opened, broken, lock_made, locked>>

NextConn ==
    \/ \E c \in Sender : ConnSendCall(c)
    \/ \E c \in Sender : ConnGet(c)
    \/ \E c \in Sender : ConnLockAcquired(c)
    \/ \E c \in Sender : ConnOpened(c)
    \/ \E c \in Sender : ConnWrite(c)
    \/ ConnLost

SpecConn == InitConn /\ [][NextConn]_vars

\* C28: at any time at most one connection the endpoint opened to a
\* destination is live, however the send_data calls to that destination
\* interleave and also when a closing writer is evicted with its lock.
C28_OneLiveWriter == Cardinality(live_writers) <= 1

\* C29: once an attempt of send_data has failed, the writer it failed on
\* is no longer in the cache, and the writer the next attempt of that
\* Send, or the next Send of that caller, works with is a connection
\* opened after the failure, never the failed writer.
C29_FailedWriterDropped ==
    /\ \A w \in broken : <<Peer, w>> \notin connections
    /\ \A c \in Sender :
        senders[c].at = "write" => senders[c].writer > senders[c].fresh_after

\* a retry works with a connection opened after its first attempt failed
\* on a writer that had been cached
C29_Witness ==
    \E c \in Sender :
        /\ senders[c].at = "write" /\ senders[c].attempt > 0
        /\ broken # {}
        /\ senders[c].fresh_after > 0
        /\ connections = {<<Peer, senders[c].writer>>}

\* C30: every send_data call that has returned, with the bytes written or
\* with every attempt failed, has incremented send_rounds by exactly one,
\* and every recv_values call that has returned, with expected_count
\* values or with fewer at the deadline, has incremented recv_rounds by
\* exactly one.
C30_RoundsPerCall ==
    (proto = "endpoint" /\ epc = "idle") =>
        /\ (call.fn = "send_data" => send_rounds = call.rounds + 1)
        /\ (call.fn = "recv_values" => recv_rounds = call.rounds + 1)

\* the tasks of owner i that returned a field element
succeeded_of(i) ==
    {k \in 1..Len(task_results) :
        computation_tasks[k][1] = i /\ task_results[k] \notin {None, Pending}}

\* the product mod p, taken in any order, of the results of a set of tasks
RECURSIVE product_of(_)
product_of(S) ==
    IF S = {} THEN 1
    ELSE LET k == CHOOSE m \in S : TRUE
         IN  (task_results[k] * product_of(S \ {k})) % p

\* C31: when secure_lagrange_interpolation returns a value, y_star is the
\* sum mod p over the owners i of acc[i] * y_i, where acc[i] is the product
\* mod p of the results of exactly the successful committees owned by i,
\* each taken once, and 1 when i owns none.
C31_Accumulation ==
    (proto = "orch" /\ opc = "done" /\ outcome = "value") =>
        y_star = sum_mod([i \in 1..party_num |->
                            (product_of(succeeded_of(i)) * y_of(i)) % p],
                         party_num)

\* a returned run in which one owner has two successful committees, a
\* committee failed, and a result is neither 0 nor 1
C31_Witness ==
    /\ proto = "orch" /\ opc = "done" /\ outcome = "value"
    /\ \E i \in 1..party_num : Cardinality(succeeded_of(i)) >= 2
    /\ \E k \in 1..Len(task_results) : task_results[k] = None
    /\ \E k \in 1..Len(task_results) : task_results[k] > 1

\* ------------------------------------------------------------------
\* handle_client on the accepted inbound streams
\* (async_socket_communication.py 77-129)
\* ------------------------------------------------------------------

MaxSilence == 2     \* read timeouts in a row on one stream

InitStream ==
    /\ p = 2               \* the handlers do no arithmetic
    /\ seed = 0
    /\ draws = 0
    /\ available_ports = FullPool
    /\ initial_ports = FullPool
    /\ proto = "stream"
    /\ SubIdle
    /\ OrchIdle
    /\ UnitIdle

streamFrame ==
    <<envVars, subVars, orchVars, utilVars, earlierVars, traceVars, inboxVars,
      connections,
      connection_locks, handlers, epc, expired, recv_res, attempt, wire, tries,
      closes, calls>>

\* 54-75: start(); the listener is up
StreamStart ==
    /\ proto = "stream" /\ server = "none"
    /\ server' = "listening"
    /\ is_running' = TRUE
    /\ UNCHANGED <<streamFrame, received_data, data_available, streams>>

\* 77-89: a peer connects; handle_client enters its loop and blocks in
\* readline
StreamAccept(s) ==
    /\ proto = "stream" /\ server = "listening" /\ streams[s].at = "none"
    /\ streams' = [streams EXCEPT ![s].at = "reading"]
    /\ UNCHANGED <<streamFrame, received_data, data_available, is_running, server>>

\* 85, 116-121: the loop condition; when it fails the finally block closes
\* the stream
loop_or_close(up) == IF up THEN "reading" ELSE "closed"

\* 89, 98-110, 85: readline returns a line before the timeout; it is
\* appended, the event is set and the loop condition tested
StreamLine(s) ==
    /\ proto = "stream" /\ streams[s].at = "reading" /\ ~streams[s].closing
    /\ Len(received_data) < MaxInbox
    /\ \E v \in LineVals : received_data' = Append(received_data, str_int(v))
    /\ data_available' = set_on_append(received_data, data_available)
    /\ streams' = [streams EXCEPT ![s].at = loop_or_close(is_running),
                                  ![s].timeouts = 0]
    /\ UNCHANGED <<streamFrame, is_running, server>>

\* 89-91, 116-129: the peer closed its end; readline returns b"" and the
\* handler leaves the loop, closes the stream and sets the event
StreamEOF(s) ==
    /\ proto = "stream" /\ streams[s].at = "reading"
    /\ streams' = [streams EXCEPT ![s].at = "closed", ![s].closing = TRUE]
    /\ data_available' = TRUE
    /\ UNCHANGED <<streamFrame, received_data, is_running, server>>

\* 92-96: what the handler does when 30 s passed without a line: it
\* leaves the loop only when the writer is closing already
after_timeout(st, up) ==
    IF st.closing THEN "closed" ELSE loop_or_close(up)

\* 89, 92-96, 85, 116-129: wait_for raises TimeoutError after 30 s of
\* silence
StreamTimeout(s) ==
    /\ proto = "stream" /\ streams[s].at = "reading"
    /\ streams[s].timeouts < MaxSilence
    /\ streams' = [streams EXCEPT ![s].at = after_timeout(streams[s], is_running),
                                  ![s].timeouts = @ + 1,
                                  ![s].closing = (after_timeout(streams[s], is_running)
                                                    = "closed")]
    /\ data_available' = (data_available
                            \/ after_timeout(streams[s], is_running) = "closed")
    /\ UNCHANGED <<streamFrame, received_data, is_running, server>>

\* 94: the transport of the stream is closing while the handler waits
StreamLost(s) ==
    /\ proto = "stream" /\ streams[s].at = "reading" /\ ~streams[s].closing
    /\ streams' = [streams EXCEPT ![s].closing = TRUE]
    /\ UNCHANGED <<streamFrame, received_data, data_available, is_running, server>>

\* 374-384: close() of the endpoint; the handlers are not cancelled
StreamEndpointClose ==
    /\ proto = "stream" /\ is_running
    /\ is_running' = FALSE
    /\ data_available' = TRUE
    /\ server' = "closed"
    /\ UNCHANGED <<streamFrame, received_data, streams>>

NextStream ==
    \/ StreamStart
    \/ \E s \in Stream : StreamAccept(s)
    \/ \E s \in Stream : StreamLine(s)
    \/ \E s \in Stream : StreamEOF(s)
    \/ \E s \in Stream : StreamTimeout(s)
    \/ \E s \in Stream : StreamLost(s)
    \/ StreamEndpointClose

SpecStream == InitStream /\ [][NextStream]_vars

\* C32: an accepted stream on which no line arrived for 30 s has been
\* closed by its handler: the handler is out of its read loop.
C32_IdleStreamClosed ==
    \A s \in Stream : streams[s].timeouts > 0 => streams[s].at = "closed"

\* ------------------------------------------------------------------
\* The decode loops of recv_values (async_socket_communication.py
\* 260-292, 307-338) on arbitrary inbox entries.  An entry is a sequence
\* of characters; "Z" stands for a run of LongRun zeros, which makes
\* numbers beyond the range of a float expressible in a few characters.
\* ------------------------------------------------------------------

MaxLine == 3        \* characters of an inbox entry
MaxEntries == 2     \* entries in the inbox when recv_values decodes
MaxDecodes == 1     \* recv_values calls that decode in one run
LongRun == 400      \* the zeros "Z" stands for: more digits than a float has

Chars == {"0", "1", "Z", ".", "e", "-", "x"}

RECURSIVE LinesUpTo(_)
LinesUpTo(n) ==
    IF n = 0 THEN {<<>>}
    ELSE LinesUpTo(n - 1)
         \cup {Append(s, c) : s \in {t \in LinesUpTo(n - 1) : Len(t) = n - 1},
                              c \in Chars}

Lines == LinesUpTo(MaxLine)

is_digit(c) == c \in {"0", "1", "Z"}

all_digits(s) == \A m \in 1..Len(s) : is_digit(s[m])

has_char(s, c) == \E m \in 1..Len(s) : s[m] = c

count_char(s, c) == Cardinality({m \in 1..Len(s) : s[m] = c})

\* len(s)
RECURSIVE str_len(_)
str_len(s) ==
    IF s = <<>> THEN 0
    ELSE (IF Head(s) = "Z" THEN LongRun ELSE 1) + str_len(Tail(s))

\* s.split(c) of a string that holds c once
before_char(s, c) == SubSeq(s, 1, (CHOOSE m \in 1..Len(s) : s[m] = c) - 1)

after_char(s, c) == SubSeq(s, (CHOOSE m \in 1..Len(s) : s[m] = c) + 1, Len(s))

\* s.lstrip('0') and s.rstrip('0')
RECURSIVE lstrip_zeros(_)
lstrip_zeros(s) ==
    IF s # <<>> /\ Head(s) \in {"0", "Z"} THEN lstrip_zeros(Tail(s)) ELSE s

RECURSIVE rstrip_zeros(_)
rstrip_zeros(s) ==
    IF s # <<>> /\ s[Len(s)] \in {"0", "Z"}
    THEN rstrip_zeros(SubSeq(s, 1, Len(s) - 1)) ELSE s

\* the value of a string of the digits 0 and 1
RECURSIVE digits_value(_)
digits_value(s) ==
    IF s = <<>> THEN 0
    ELSE digits_value(SubSeq(s, 1, Len(s) - 1)) * 10
         + (IF s[Len(s)] = "1" THEN 1 ELSE 0)

\* the natural number a digit string denotes: its value when it has few
\* digits, and the fact that it is huge when a run follows a nonzero digit
nat_of(s) ==
    LET t == lstrip_zeros(s)
    IN  IF has_char(t, "Z") THEN [big |-> TRUE, val |-> 0, digits |-> str_len(t)]
        ELSE [big |-> FALSE, val |-> digits_value(t), digits |-> Len(t)]

unsigned(s) == IF s # <<>> /\ Head(s) = "-" THEN Tail(s) ELSE s

negative(s) == s # <<>> /\ Head(s) = "-"

\* int(s) does not raise ValueError
int_valid(s) == unsigned(s) # <<>> /\ all_digits(unsigned(s))

\* the mantissa of a float literal: digits with at most one point
mantissa_valid(s) ==
    LET u == unsigned(s)
    IN  /\ count_char(u, ".") <= 1
        /\ \A m \in 1..Len(u) : is_digit(u[m]) \/ u[m] = "."
        /\ \E m \in 1..Len(u) : is_digit(u[m])

\* float(s) does not raise ValueError
float_valid(s) ==
    IF has_char(s, "e")
    THEN /\ count_char(s, "e") = 1
         /\ mantissa_valid(before_char(s, "e"))
         /\ int_valid(after_char(s, "e"))
    ELSE mantissa_valid(s)

\* the values a decoded entry can be, and the exception that leaves the loop
IntResult(v) == [kind |-> "int", val |-> v]
BigResult == [kind |-> "big int", val |-> 0]
FloatResult == [kind |-> "float", val |-> 0]
RaisedResult == [kind |-> "raises", val |-> 0]
ValueErrorResult == [kind |-> "ValueError", val |-> 0]

signed(neg, n) == IF n.big THEN BigResult ELSE IntResult(IF neg THEN 0 - n.val ELSE n.val)

\* int(float(s)) of a float literal without exponent: the integer part,
\* OverflowError when the float is infinite
int_of_float(s) ==
    LET u == unsigned(s)
        ip == IF has_char(u, ".") THEN before_char(u, ".") ELSE u
        n == nat_of(ip)
    IN  IF n.big THEN RaisedResult ELSE signed(negative(s), n)

\* 287-292, 333-338: the except ValueError branch: int(float(data_str)),
\* and 0 when that raises anything.  A literal with an exponent reaches it
\* only when its mantissa has no digit but zeros.
fallback(s) ==
    IF float_valid(s) /\ ~has_char(s, "e") /\ int_of_float(s).kind = "int"
    THEN int_of_float(s)
    ELSE IntResult(0)

\* combined_int * (10 ** exp): an int when exp >= 0, a float when exp < 0;
\* it does not return when exp is huge and raises OverflowError when a huge
\* int meets a float
scaled(neg, n, e_neg, e, shift) ==
    IF e.big THEN RaisedResult
    ELSE LET ex == (IF e_neg THEN 0 - e.val ELSE e.val) - shift
         IN  IF ex < 0 THEN (IF n.big THEN RaisedResult ELSE FloatResult)
             ELSE IF n.big \/ (n.val # 0 /\ n.digits + ex > 9) THEN BigResult
             ELSE IntResult((IF neg THEN 0 - n.val ELSE n.val) * 10 ^ ex)

\* 266-277, 310-321: the branch for an entry that holds an "e"
exponent_branch(s) ==
    IF count_char(s, "e") # 1 THEN ValueErrorResult
    ELSE LET base == before_char(s, "e")
             ex == after_char(s, "e")
         IN  IF has_char(base, ".")
             THEN IF count_char(base, ".") # 1 THEN ValueErrorResult
                  ELSE LET dec == rstrip_zeros(after_char(base, "."))
                           both == before_char(base, ".") \o dec
                       IN  IF ~int_valid(both) \/ ~int_valid(ex)
                           THEN ValueErrorResult
                           ELSE scaled(negative(both), nat_of(unsigned(both)),
                                       negative(ex), nat_of(unsigned(ex)),
                                       str_len(dec))
             ELSE IF ~int_valid(base) \/ ~int_valid(ex) THEN ValueErrorResult
                  ELSE scaled(negative(base), nat_of(unsigned(base)),
                              negative(ex), nat_of(unsigned(ex)), 0)

\* 265-286, 309-332: the try block
first_try(s) ==
    IF has_char(s, "e") THEN exponent_branch(s)
    ELSE IF has_char(s, ".")
    THEN (IF float_valid(s) THEN int_of_float(s) ELSE ValueErrorResult)
    ELSE IF int_valid(s) THEN signed(negative(s), nat_of(unsigned(s)))
    ELSE ValueErrorResult

\* 262-292, 307-338: one entry is converted
decode(s) == IF first_try(s).kind = "ValueError" THEN fallback(s) ELSE first_try(s)

InitDecode ==
    /\ p = 2               \* the decode loop does no arithmetic mod p
    /\ seed = 0
    /\ draws = 0
    /\ available_ports = FullPool
    /\ initial_ports = FullPool
    /\ proto = "decode"
    /\ SubIdle
    /\ OrchIdle
    /\ UnitIdle

decodeFrame ==
    <<envVars, subVars, orchVars, auxVars, data_available, is_running, server,
      connections, connection_locks, handlers, expired, attempt, wire, tries,
      closes>>

\* 104-107: handle_client appends a line a peer wrote, whatever it holds
DecodeArrive ==
    /\ proto = "decode" /\ epc = "idle" /\ Len(received_data) < MaxEntries
    /\ calls = 0
    /\ \E s \in Lines : received_data' = Append(received_data, s)
    /\ UNCHANGED <<decodeFrame, call, ret, epc, recv_res, calls>>

\* 257-261, 303-307: recv_values finds expected_count entries, or the
\* deadline has passed and it takes what is there
DecodeCall ==
    /\ proto = "decode" /\ epc = "idle" /\ calls < MaxDecodes
    /\ \E k \in 0..MaxExpected, late \in BOOLEAN :
        /\ late \/ Len(received_data) >= k
        /\ call' = [fn |-> "recv_values", expected_count |-> k,
                    count |-> Min(k, Len(received_data)),
                    before |-> received_data]
    /\ ret' = Pending
    /\ recv_res' = <<>>
    /\ epc' = "decoding"
    /\ calls' = calls + 1
    /\ UNCHANGED <<decodeFrame, received_data>>

\* 261-292, 307-338: one pass of the loop: pop(0) and the conversion; an
\* exception other than ValueError leaves recv_values
DecodeNext ==
    /\ proto = "decode" /\ epc = "decoding" /\ Len(recv_res) < call.count
    /\ received_data' = Tail(received_data)
    /\ IF decode(Head(received_data)).kind = "raises"
       THEN /\ ret' = Raised
            /\ epc' = "idle"
            /\ UNCHANGED recv_res
       ELSE /\ recv_res' = Append(recv_res, decode(Head(received_data)))
            /\ UNCHANGED <<ret, epc>>
    /\ UNCHANGED <<decodeFrame, call, calls>>

\* 293-299, 339-345: return res
DecodeReturn ==
    /\ proto = "decode" /\ epc = "decoding" /\ Len(recv_res) = call.count
    /\ ret' = None
    /\ epc' = "idle"
    /\ UNCHANGED <<decodeFrame, call, received_data, recv_res, calls>>

NextDecode ==
    \/ DecodeArrive
    \/ DecodeCall
    \/ DecodeNext
    \/ DecodeReturn

SpecDecode == InitDecode /\ [][NextDecode]_vars

\* the entry is the decimal text of a non-negative integer
decimal_text(s) == s # <<>> /\ all_digits(s)

\* the entry is no number at all
unparseable(s) == ~int_valid(s) /\ ~float_valid(s)

\* C33: recv_values raises for no content of the inbox; when it has
\* returned, every entry it consumed gave one value of the returned list,
\* the decimal text of a non-negative integer gave that integer, and an
\* unparseable entry gave 0.
C33_DecodeTotal ==
    proto = "decode" =>
        /\ ret # Raised
        /\ (epc = "idle" /\ call.fn = "recv_values" /\ ret = None) =>
            /\ Len(recv_res) = call.count
            /\ received_data = SubSeq(call.before, call.count + 1, Len(call.before))
            /\ \A m \in 1..Len(recv_res) :
                LET s == call.before[m]
                IN  /\ decimal_text(s) =>
                            IF has_char(lstrip_zeros(s), "Z")
                            THEN recv_res[m].kind = "big int"
                            ELSE recv_res[m] = IntResult(digits_value(s))
                    /\ unparseable(s) => recv_res[m] = IntResult(0)

(***************************************************************************)
(* Arrival order.  recv_values hands back the inbox entries by position    *)
(* (protocol.py 146-148, 186-187, 222-223; protocol_extension.py 151-239), *)
(* and the streams of different peers may deliver in any order.            *)
(***************************************************************************)
\* C34: when every message of every round has arrived, three_party_compute
\* and four_party_compute return the value their arithmetic gives with each
\* round's messages taken in the order the peers are listed in, whatever the
\* order in which the messages of a round arrived.
C34_ArrivalOrder ==
    (proto \in {"three", "four"} /\ pc = "done" /\ AllDelivered)
    => result = (IF proto = "three" THEN NoDrop3 ELSE NoDrop4)

C34_Witness ==
    /\ proto \in {"three", "four"} /\ pc = "done" /\ AllDelivered
    /\ reordered
    /\ result # None /\ result > 1
    /\ result = (IF proto = "three" THEN NoDrop3 ELSE NoDrop4)

(***************************************************************************)
(* Rounds and the inbox.  An endpoint has one inbox for all rounds         *)
(* (async_socket_communication.py 38, 104-110) and recv_values pops its    *)
(* oldest lines (262-292, 307-338).                                        *)
(***************************************************************************)
\* the sub-protocol has run to its end and no recv_values came back short
Completed ==
    /\ Scheduling /\ sched_at = Len(Program) + 1
    /\ \A q \in Party, r \in Rounds : task_state[RecvTask(q, r)] # "short"

\* C35: in both sub-protocols, however sends, arrivals (late ones and
\* missing ones included) and recv_values calls interleave, the recv_values
\* of round r of a participant returns only lines that were sent to it in
\* round r, and when the sub-protocol has completed with no short list every
\* inbox is empty.
C35_RoundIsolation ==
    Scheduling
    => /\ \A q \in Party, r \in Rounds :
            \A n \in 1..Len(consumed[q][r]) : consumed[q][r][n] = r
       /\ Completed => \A q \in Party : boxes[q] = <<>>

C35_Witness ==
    /\ Completed /\ proto = "sched4"
    /\ consumed["i"][2] = <<2, 2, 2>>
    /\ consumed["j"][1] = <<1, 1, 1>>
    /\ consumed["i"][4] = <<4, 4, 4>>
    /\ \A q \in Party : boxes[q] = <<>>

\* C36: for every party count in [MIN_PARTIES, MAX_PARTIES], when the
\* orchestrator launches its committees against the full pool of ports
\* MinPort..MaxPort, no get_port finds the pool empty and no committee
\* returns None for lack of ports.
C36_PoolSuffices ==
    (proto = "orch" /\ initial_ports = FullPool)
    => /\ ~exhausted
       /\ \A k \in 1..launched : task_ports[k] # <<>>

\* the ports of the endpoints of the live committees, one entry per endpoint
live_ports ==
    {<<m, b>> : m \in live_committees, b \in 1..4} \cap
    {e \in (1..Len(task_results)) \X (1..4) : e[2] <= Len(task_ports[e[1]])}

\* C37: while the committees of a run are live together, their endpoints
\* hold pairwise distinct ports, and every line that was written went to an
\* endpoint of the committee that wrote it.
C37_CommitteeIsolation ==
    proto = "orch"
    => /\ \A e, f \in live_ports :
            e # f => task_ports[e[1]][e[2]] # task_ports[f[1]][f[2]]
       /\ \A d \in routed : d[1] = d[2]

C37_Witness ==
    /\ proto = "orch" /\ opc = "gather"
    /\ Cardinality(live_committees) >= 2
    /\ \E k \in live_committees : is_four(computation_tasks[k])
    /\ Cardinality(routed) >= 2
    /\ \A d \in routed : d[1] = d[2]

(***************************************************************************)
(* Termination.  The calls on an endpoint, the schedule of a sub-protocol  *)
(* and the orchestrator, each on its own, with the event loop running      *)
(* every coroutine that can run and the clock going on: weak fairness of   *)
(* the steps of the coroutines and of the deadline.  Nothing obliges a     *)
(* line to arrive or an attempt of send_data to succeed.                   *)
(***************************************************************************)
InitTermination == InitEndpoint \/ InitSched \/ Init

NextTermination ==
    \/ EpStart
    \/ EpAccept
    \/ EpArrive
    \/ RecvCall
    \/ RecvCheck
    \/ RecvWake
    \/ RecvTimeout
    \/ DeadlinePasses
    \/ SendCall
    \/ SendAttempt
    \/ CloseCall
    \/ CloseServers
    \/ CloseConns
    \/ MainCreateTask
    \/ MainGather
    \/ MainGatherDone
    \/ MainRecv
    \/ MainAwaitDone
    \/ MainCheck
    \/ LoopRun
    \/ SendReturns
    \/ Arrives
    \/ RecvFull
    \/ RecvShort
    \/ Validate
    \/ Plan
    \/ Launch
    \/ Settle
    \/ Aggregate

\* the steps of a call on the endpoint once it has been made
EndpointStep ==
    RecvCheck \/ RecvWake \/ RecvTimeout \/ SendAttempt \/ CloseServers \/ CloseConns

\* the steps of the sub-protocol coroutine and of the tasks it created; the
\* deadline of a recv_values that waits is one of them
SchedStep ==
    \/ MainCreateTask \/ MainGather \/ MainGatherDone \/ MainRecv
    \/ MainAwaitDone \/ MainCheck
    \/ LoopRun \/ SendReturns \/ RecvFull \/ RecvShort

\* Launch can be taken: its guard
LaunchEnabled ==
    proto = "orch" /\ opc = "launch" /\ launched < Len(computation_tasks)

\* Settle can be taken: its guard (a committee may always end without a
\* fault)
SettleEnabled ==
    /\ proto = "orch" /\ opc = "gather"
    /\ \E k \in 1..Len(task_results) : task_results[k] = Pending

\* The weak fairness of Launch and of Settle is written out with their
\* guards: WF_vars(A) is []<>~ENABLED <<A>>_vars \/ []<><<A>>_vars.
SpecTermination ==
    /\ InitTermination /\ [][NextTermination]_vars
    /\ WF_vars(EndpointStep) /\ WF_vars(DeadlinePasses)
    /\ WF_vars(SchedStep)
    /\ WF_vars(Validate) /\ WF_vars(Plan) /\ WF_vars(Aggregate)
    /\ ([]<>(~LaunchEnabled) \/ []<><<Launch>>_vars)
    /\ ([]<>(~SettleEnabled) \/ []<><<Settle>>_vars)

\* C38: every recv_values, send_data and close() that was called returns to
\* its caller; every run of three_party_compute and four_party_compute gets
\* to its end, whichever lines never arrive; and every call of
\* secure_lagrange_interpolation returns or raises.
HasReturned ==
    \/ proto = "endpoint" /\ epc = "idle"
    \/ Scheduling /\ sched_at = Len(Program) + 1
    \/ proto = "orch" /\ opc = "done"

C38_Termination == []<>HasReturned

C38_Witness ==
    /\ Scheduling /\ sched_at = Len(Program) + 1
    /\ \E q \in Party, r \in Rounds : task_state[RecvTask(q, r)] = "short"
    /\ \E q \in Party, r \in Rounds : landed[q][r] < issued_to(q, r)

(***************************************************************************)
(* The counters a sub-protocol returns next to its value: the sums of      *)
(* send_rounds, recv_rounds, send_data_size and recv_data_size of its      *)
(* endpoints (protocol.py 244-259, protocol_extension.py 295-307).         *)
(***************************************************************************)
\* C39: a run of three_party_compute that returns a value reports 10 sends
\* and 5 recv_values calls, a run of four_party_compute 21 sends and 7
\* recv_values calls, and in both as many bytes received as sent.
C39_Telemetry ==
    (proto \in {"three", "four"} /\ pc = "done" /\ result # None)
    => /\ tele.send_rounds = (IF proto = "three" THEN 10 ELSE 21)
       /\ tele.recv_rounds = (IF proto = "three" THEN 5 ELSE 7)
       /\ tele.send_data_size = tele.recv_data_size

C39_Witness ==
    /\ proto = "four" /\ pc = "done" /\ result # None /\ result > 1
    /\ send_fails = 1
    /\ tele.send_rounds = 21 /\ tele.recv_rounds = 7
    /\ tele.send_data_size = tele.recv_data_size
    /\ tele.send_data_size > 0

(***************************************************************************)
(* send_data on an endpoint constructed with max_bandwidth                 *)
(* (async_socket_communication.py 14-29, 193-237): the payload is written  *)
(* in chunks of max_bandwidth // 10 bytes.  bw holds the locals of the     *)
(* call; passes counts the passes of the write loop.                       *)
(***************************************************************************)
MaxBandwidth == 25      \* caps 1..MaxBandwidth, in bytes per second
MaxData == 4            \* payloads of 2..MaxData bytes, the newline included
MaxPasses == 6          \* passes of the write loop that are followed

InitBandwidth ==
    /\ p = 2               \* the call does no arithmetic
    /\ seed = 0
    /\ draws = 0
    /\ available_ports = FullPool
    /\ initial_ports = FullPool
    /\ proto = "bandwidth"
    /\ SubIdle
    /\ OrchIdle
    /\ UnitIdle

bwFrame ==
    <<envVars, subVars, orchVars, utilVars, epVars, poolVars, schedVars,
      shutVars, connVars, statVars, streamVars, traceVars, inboxVars>>

\* 168-191: send_data is called on an endpoint whose max_bandwidth is cap
BwCall ==
    /\ proto = "bandwidth" /\ bw.at = "idle"
    /\ \E cap \in 1..MaxBandwidth, len \in 2..MaxData :
         bw' = [bw EXCEPT !.at = "attempt", !.max_bandwidth = cap,
                          !.data_len = len, !.attempt = 0]
    /\ UNCHANGED bwFrame

\* 200: chunk_size = min(self.max_bandwidth // 10, data_len)
chunk_size_of(cap, len) == Min(cap \div 10, len)

\* 202: len(data_bytes[sent:sent+chunk_size])
chunk_len(sent, size, len) == Min(size, len - sent)

\* 193-200: the connection is there (197 is true for a positive cap); sent
\* and chunk_size are set
BwBegin ==
    /\ proto = "bandwidth" /\ bw.at = "attempt"
    /\ bw' = [bw EXCEPT !.at = "loop", !.sent = 0,
                        !.chunk_size = chunk_size_of(bw.max_bandwidth, bw.data_len)]
    /\ UNCHANGED bwFrame

\* 201-209: one pass of the loop: the chunk is written and drained, sent
\* grows by its length
BwChunk ==
    /\ proto = "bandwidth" /\ bw.at = "loop"
    /\ bw.sent < bw.data_len
    /\ bw.passes < MaxPasses
    /\ bw' = [bw EXCEPT !.sent = @ + chunk_len(bw.sent, bw.chunk_size, bw.data_len),
                        !.passes = @ + 1]
    /\ UNCHANGED bwFrame

\* 201, 215-221: the loop is left, the counters are updated and data_len
\* returned
BwReturn ==
    /\ proto = "bandwidth" /\ bw.at = "loop"
    /\ bw.sent >= bw.data_len
    /\ bw' = [bw EXCEPT !.at = "done", !.ret = bw.data_len]
    /\ UNCHANGED bwFrame

\* 223-237: get_connection, write or drain raised: the next attempt, or 0
\* when none is left
BwRaise ==
    /\ proto = "bandwidth" /\ bw.at \in {"attempt", "loop"}
    /\ bw' = [bw EXCEPT !.attempt = @ + 1,
                        !.at = IF may_retry(bw.attempt + 1) THEN "attempt" ELSE "done",
                        !.ret = IF may_retry(bw.attempt + 1) THEN None ELSE 0]
    /\ UNCHANGED bwFrame

NextBandwidth ==
    \/ BwCall
    \/ BwBegin
    \/ BwChunk
    \/ BwReturn
    \/ BwRaise

SpecBandwidth == InitBandwidth /\ [][NextBandwidth]_vars

\* a pass of the write loop
BwPass == proto = "bandwidth" /\ bw.at = "loop" /\ bw'.passes = bw.passes + 1

\* C40: on an endpoint with a positive max_bandwidth every pass of the
\* chunked write loop of send_data increases the number of bytes sent, so
\* that the loop ends when the payload is written.
C40_ChunkProgress == [][BwPass => bw'.sent > bw.sent]_vars

====
